---- MODULE Spec2Model ----
(***************************************************************************)
(* Driver-side order hooks of begin-again-kit: useDriverOrders (status     *)
(* mutations, assigned/available queries), DeliveryRequestCard             *)
(* (acceptOrder, rejectOrder, distance) and useAvailableOrders (available  *)
(* query, real-time subscription), acting on the remote relational store;  *)
(* and the customer-side OrderTracking and LocationSelector components.    *)
(***************************************************************************)
EXTENDS Integers, Sequences, FiniteSets, TLC

\* ------------------------------------------------------------------ bounds
NumOrders == 2
MaxTime == 1
MaxRows == 2
MaxEvents == 2
MaxCalls == 1

Drivers == {"d1", "d2"}
Times == 1..MaxTime

\* SQL NULL in a timestamp or foreign-key column
NULL == 0

\* type OrderStatus
OrderStatus == {"pending", "confirmed", "preparing", "ready", "delivered", "cancelled"}

\* retry: 2 of the available-orders query of useDriverOrders
DriverOrdersRetry == 2

\* retry: 2 of the query of useAvailableOrders
AvailableOrdersRetry == 2

\* the keys passed to invalidateQueries
QueryKeys == {"driver-orders", "available-orders"}

\* the cached queries a key invalidates: those whose queryKey starts with it
\* (['driver-orders', driverId]; ['available-orders'] of useDriverOrders and
\* ['available-orders', driverId] of useAvailableOrders)
Matching(keys) ==
    (IF "driver-orders" \in keys THEN {"driver-orders,driverId"} ELSE {})
    \cup (IF "available-orders" \in keys
          THEN {"available-orders", "available-orders,driverId"} ELSE {})

VARIABLES
    orders,                \* table orders: id -> row
    order_assignments,     \* table order_assignments: sequence of rows
    driver_notifications,  \* table driver_notifications: sequence of rows
    calls,                 \* number of mutations started so far
    mut,                   \* the updateOrderStatus mutation of useDriverOrders
    acc,                   \* the acceptOrder mutation of a DeliveryRequestCard
    stale,                 \* cached queries marked invalid and not yet refetched
    dq,                    \* the available-orders query of useDriverOrders
    aq,                    \* the available-orders query of useAvailableOrders
    rt,                    \* the real-time subscription of useAvailableOrders
    asg,                   \* the assignOrderToDriver mutation of useDriverOrders
    rej,                   \* the rejectOrder mutation of a DeliveryRequestCard
    sq,                    \* the assigned-orders query of useDriverOrders
    card,                  \* props and distance state of a DeliveryRequestCard
    btn,                   \* isAccepting and isRejecting of each DeliveryRequestCard
    hook,                  \* a mounted useAvailableOrders: its driverId and the open channels
    driver_locations,      \* table driver_locations: sequence of rows
    ot,                    \* an OrderTracking: driverId, subscription, driverLocation, fetches
    ls                     \* a LocationSelector: its state, geocoder requests, onLocationSelect calls

vars ==
    <<orders, order_assignments, driver_notifications, calls, mut, acc, stale, dq, aq, rt,
      asg, rej, sq, card, btn, hook, driver_locations, ot, ls>>

storeVars == <<orders, order_assignments, driver_notifications>>

\* the ids of the rows of table orders
Orders == DOMAIN orders

\* ------------------------------------------------------------------ helpers
Range(s) == {s[i] : i \in DOMAIN s}

\* the rows of order_assignments with order_id = o  (.eq('order_id', o))
AssignmentsOf(o) == {i \in DOMAIN order_assignments : order_assignments[i].order_id = o}

\* a row of order_assignments as acceptOrder inserts it
AssignmentRow(o, d, t) ==
    [order_id |-> o, driver_id |-> d, assigned_at |-> t, picked_up_at |-> NULL,
     delivered_at |-> NULL]

\* o's row after .update(payload): the payload's columns replace the row's
ApplyPayload(row, payload) ==
    [c \in DOMAIN row |-> IF c \in DOMAIN payload THEN payload[c] ELSE row[c]]

\* ------------------------------------------------------------------ the remote store
\* table orders after the request req: .update(payload).eq('id', value)
UpdateOrders(tbl, req) ==
    IF req.ok /\ req.value \in DOMAIN tbl
    THEN [tbl EXCEPT ![req.value] = ApplyPayload(@, req.payload)]
    ELSE tbl

\* table order_assignments after the request req: .update(payload).eq('order_id', value)
UpdateAssignments(tbl, req) ==
    IF req.ok
    THEN [i \in DOMAIN tbl |->
            IF tbl[i].order_id = req.value THEN ApplyPayload(tbl[i], req.payload)
            ELSE tbl[i]]
    ELSE tbl

\* ------------------------------------------------------------------ updateOrderStatus
MutIdle ==
    [pc |-> "idle", via |-> "mutate", orderId |-> 1, status |-> "pending",
     hasUpdate |-> FALSE, assignmentUpdate |-> <<>>, sent |-> <<>>,
     invalidated |-> {}, toast |-> "none"]

\* the values of the optional assignmentUpdate argument at time t
AssignmentUpdates(t) ==
    { <<>>, [picked_up_at |-> t], [delivered_at |-> t],
      [picked_up_at |-> t, delivered_at |-> t] }

\* updateOrderStatus.mutate(variables): the mutation starts
Mutate(via, orderId, status, hasUpdate, assignmentUpdate) ==
    /\ mut.pc \in {"idle", "done"}
    /\ calls < MaxCalls
    /\ calls' = calls + 1
    /\ mut' = [MutIdle EXCEPT !.pc = "orders", !.via = via, !.orderId = orderId,
                              !.status = status, !.hasUpdate = hasUpdate,
                              !.assignmentUpdate = assignmentUpdate]
    /\ UNCHANGED <<ls, ot, driver_locations, hook, btn, asg, rej, sq, card, storeVars, acc, stale, dq, aq, rt>>

\* a caller of the hook invokes updateOrderStatus.mutate with its own arguments
CallUpdateOrderStatus ==
    \E o \in Orders, s \in OrderStatus, h \in BOOLEAN, t \in Times :
      \E au \in AssignmentUpdates(t) :
        /\ (~h => au = <<>>)
        /\ Mutate("mutate", o, s, h, au)

\* the variables pickupOrder passes to mutate at time t
PickupVariables(t) == [status |-> "ready", assignmentUpdate |-> [picked_up_at |-> t]]

\* the variables deliverOrder passes to mutate at time t
DeliverVariables(t) == [status |-> "delivered", assignmentUpdate |-> [delivered_at |-> t]]

pickupOrder ==
    \E o \in Orders, t \in Times :
        Mutate("pickupOrder", o, PickupVariables(t).status, TRUE,
               PickupVariables(t).assignmentUpdate)

deliverOrder ==
    \E o \in Orders, t \in Times :
        Mutate("deliverOrder", o, DeliverVariables(t).status, TRUE,
               DeliverVariables(t).assignmentUpdate)

\* onSuccess
MutOnSuccess(m) ==
    [m EXCEPT !.pc = "done", !.invalidated = {"driver-orders", "available-orders"},
              !.toast = "success"]

\* mutant: onError invalidates the cached queries as onSuccess does
MutOnError_Invalidates(m) ==
    [m EXCEPT !.pc = "done", !.invalidated = {"driver-orders", "available-orders"},
              !.toast = "error"]

\* onError
MutOnError(m) ==
    [m EXCEPT !.pc = "done", !.toast = "error"]

\* mutant: the orders payload without updated_at
OrdersUpdateRequest_StatusOnly(m, t, ok) ==
    [table |-> "orders", column |-> "id", value |-> m.orderId,
     payload |-> [status |-> m.status], ok |-> ok]

\* the request .from('orders').update({status, updated_at}).eq('id', orderId)
OrdersUpdateRequest(m, t, ok) ==
    [table |-> "orders", column |-> "id", value |-> m.orderId,
     payload |-> [status |-> m.status, updated_at |-> t], ok |-> ok]

\* the request .from('order_assignments').update(assignmentUpdate).eq('order_id', orderId)
AssignmentsUpdateRequest(m, ok) ==
    [table |-> "order_assignments", column |-> "order_id", value |-> m.orderId,
     payload |-> m.assignmentUpdate, ok |-> ok]

\* mutant: a failed orders update is sent once more
AfterOrdersUpdate_Retry(m, ok) ==
    IF ~ok THEN (IF Len(m.sent) < 2 THEN [m EXCEPT !.pc = "orders"] ELSE MutOnError(m))
    ELSE IF m.hasUpdate THEN [m EXCEPT !.pc = "assignments"]
    ELSE MutOnSuccess(m)

\* mutationFn after the response to the orders update
AfterOrdersUpdate(m, ok) ==
    IF ~ok THEN MutOnError(m)
    ELSE IF m.hasUpdate THEN [m EXCEPT !.pc = "assignments"]
    ELSE MutOnSuccess(m)

\* mutant: assignmentError is not thrown
AfterAssignmentsUpdate_IgnoreError(m, ok) == MutOnSuccess(m)

\* mutationFn after the response to the order_assignments update
AfterAssignmentsUpdate(m, ok) ==
    IF ok THEN MutOnSuccess(m) ELSE MutOnError(m)

\* first await of mutationFn: the orders update and what follows its response
MutUpdateOrder ==
    /\ mut.pc = "orders"
    /\ \E ok \in BOOLEAN, t \in Times :
        LET req == OrdersUpdateRequest(mut, t, ok)
            m1  == AfterOrdersUpdate([mut EXCEPT !.sent = Append(@, req)], ok)
        IN  /\ orders' = UpdateOrders(orders, req)
            /\ mut' = m1
            /\ stale' = stale \cup Matching(m1.invalidated)
    /\ UNCHANGED <<ls, ot, driver_locations, hook, btn, asg, rej, sq, card, order_assignments, driver_notifications, calls, acc, dq, aq, rt>>

\* second await of mutationFn: the order_assignments update and what follows
MutUpdateAssignment ==
    /\ mut.pc = "assignments"
    /\ \E ok \in BOOLEAN :
        LET req == AssignmentsUpdateRequest(mut, ok)
            m1  == AfterAssignmentsUpdate([mut EXCEPT !.sent = Append(@, req)], ok)
        IN  /\ order_assignments' = UpdateAssignments(order_assignments, req)
            /\ mut' = m1
            /\ stale' = stale \cup Matching(m1.invalidated)
    /\ UNCHANGED <<ls, ot, driver_locations, hook, btn, asg, rej, sq, card, orders, driver_notifications, calls, acc, dq, aq, rt>>

\* ------------------------------------------------------------------ DeliveryRequestCard: buttons
\* useState(false) of isAccepting and isRejecting, in the card of each order shown to
\* each driver
BtnIdle == [c \in Orders \X Drivers |-> [isAccepting |-> FALSE, isRejecting |-> FALSE]]

\* the card a mutation was started from
CardOf(m) == <<m.orderId, m.driverId>>

\* mutant: the accept button is disabled by its own flag only
AcceptDisabled_OwnFlag(b) == b.isAccepting

\* disabled={isAccepting || isRejecting} of the accept button
AcceptDisabled(b) == b.isAccepting \/ b.isRejecting

\* disabled={isRejecting || isAccepting} of the reject button
RejectDisabled(b) == b.isRejecting \/ b.isAccepting

\* finally { setIsAccepting(false) }: the continuation of handleAccept, run when
\* mutateAsync has settled, after onSuccess or onError and before any other event
AcceptFinally(b, a) ==
    IF a.pc = "done" THEN [b EXCEPT ![CardOf(a)].isAccepting = FALSE] ELSE b

\* finally { setIsRejecting(false) }
RejectFinally(b, r) ==
    IF r.pc = "done" THEN [b EXCEPT ![CardOf(r)].isRejecting = FALSE] ELSE b

\* ------------------------------------------------------------------ acceptOrder
AccIdle ==
    [pc |-> "idle", orderId |-> 1, driverId |-> "d1", sent |-> <<>>, invalidated |-> {},
     toast |-> "none"]

\* a request of acceptOrder, rejectOrder or assignOrderToDriver and whether the store
\* answered it without error
Request(table, op, ok) == [table |-> table, op |-> op, ok |-> ok]

\* the mutation m after the answer to one more request
Sent(m, table, op, ok) == [m EXCEPT !.sent = Append(@, Request(table, op, ok))]

\* a click on the accept button of the card of order o shown to driver d, while
\* fewer than budget mutations have been started: setIsAccepting(true), then
\* acceptOrder.mutateAsync()
ClickAccept(budget) ==
    /\ acc.pc \in {"idle", "done"}
    /\ calls < budget
    /\ calls' = calls + 1
    /\ \E o \in Orders, d \in Drivers :
        /\ ~AcceptDisabled(btn[<<o, d>>])
        /\ acc' = [AccIdle EXCEPT !.pc = "assignment", !.orderId = o, !.driverId = d]
        /\ btn' = [btn EXCEPT ![<<o, d>>].isAccepting = TRUE]
    /\ UNCHANGED <<ls, ot, driver_locations, hook, asg, rej, sq, card, storeVars, mut, stale, dq, aq, rt>>

handleAccept == ClickAccept(MaxCalls)

AccOnError(a) == [a EXCEPT !.pc = "done", !.toast = "error"]

\* mutant: only 'available-orders' is invalidated
AccOnSuccess_AvailableOnly(a) ==
    [a EXCEPT !.pc = "done", !.invalidated = {"available-orders"}, !.toast = "success"]

AccOnSuccess(a) ==
    [a EXCEPT !.pc = "done", !.invalidated = {"available-orders", "driver-orders"},
              !.toast = "success"]

\* mutant: acceptOrder writes 'ready'
AcceptOrderRequest_Ready(a, t, ok) ==
    [table |-> "orders", column |-> "id", value |-> a.orderId,
     payload |-> [status |-> "ready", updated_at |-> t], ok |-> ok]

\* the request .from('orders').update({status: 'confirmed', updated_at}).eq('id', request.id)
AcceptOrderRequest(a, t, ok) ==
    [table |-> "orders", column |-> "id", value |-> a.orderId,
     payload |-> [status |-> "confirmed", updated_at |-> t], ok |-> ok]

\* mutant: assignmentError is not thrown
AfterInsertAssignment_IgnoreError(a, ok) == [a EXCEPT !.pc = "order"]

\* if (assignmentError) throw assignmentError
AfterInsertAssignment(a, ok) == IF ok THEN [a EXCEPT !.pc = "order"] ELSE AccOnError(a)

\* if (orderError) throw orderError
AfterAcceptUpdate(a, ok) == IF ok THEN [a EXCEPT !.pc = "notification"] ELSE AccOnError(a)

\* if (notificationError) throw notificationError, else the mutation succeeded
AfterInsertNotification(a, ok) == IF ok THEN AccOnSuccess(a) ELSE AccOnError(a)

\* insert into order_assignments
AccInsertAssignment ==
    /\ acc.pc = "assignment"
    /\ \E ok \in BOOLEAN, t \in Times :
        /\ ok => Len(order_assignments) < MaxRows
        /\ order_assignments' =
             IF ok
             THEN Append(order_assignments, AssignmentRow(acc.orderId, acc.driverId, t))
             ELSE order_assignments
        /\ acc' = AfterInsertAssignment(Sent(acc, "order_assignments", "insert", ok), ok)
    /\ btn' = AcceptFinally(btn, acc')
    /\ UNCHANGED <<ls, ot, driver_locations, hook, asg, rej, sq, card, orders, driver_notifications, calls, mut, stale, dq, aq, rt>>

\* update of the order to 'confirmed'
AccUpdateOrder ==
    /\ acc.pc = "order"
    /\ \E ok \in BOOLEAN, t \in Times :
        /\ orders' = UpdateOrders(orders, AcceptOrderRequest(acc, t, ok))
        /\ acc' = AfterAcceptUpdate(Sent(acc, "orders", "update", ok), ok)
    /\ btn' = AcceptFinally(btn, acc')
    /\ UNCHANGED <<ls, ot, driver_locations, hook, asg, rej, sq, card, order_assignments, driver_notifications, calls, mut, stale, dq, aq, rt>>

\* insert into driver_notifications, then onSuccess or onError
AccInsertNotification ==
    /\ acc.pc = "notification"
    /\ \E ok \in BOOLEAN :
        /\ ok => Len(driver_notifications) < MaxRows
        /\ driver_notifications' =
             IF ok
             THEN Append(driver_notifications,
                         [driver_id |-> acc.driverId, order_id |-> acc.orderId,
                          notification_type |-> "order_accepted", is_read |-> FALSE])
             ELSE driver_notifications
        /\ LET a1 == AfterInsertNotification(Sent(acc, "driver_notifications", "insert", ok), ok)
           IN  acc' = a1 /\ stale' = stale \cup Matching(a1.invalidated)
    /\ btn' = AcceptFinally(btn, acc')
    /\ UNCHANGED <<ls, ot, driver_locations, hook, asg, rej, sq, card, orders, order_assignments, calls, mut, dq, aq, rt>>

\* ------------------------------------------------------------------ rejectOrder
RejIdle ==
    [pc |-> "idle", orderId |-> 1, driverId |-> "d1", sent |-> <<>>, invalidated |-> {},
     toast |-> "none"]

\* a click on the reject button of the card of order o shown to driver d, while
\* fewer than budget mutations have been started: setIsRejecting(true), then
\* rejectOrder.mutateAsync()
ClickReject(budget) ==
    /\ rej.pc \in {"idle", "done"}
    /\ calls < budget
    /\ calls' = calls + 1
    /\ \E o \in Orders, d \in Drivers :
        /\ ~RejectDisabled(btn[<<o, d>>])
        /\ rej' = [RejIdle EXCEPT !.pc = "notification", !.orderId = o, !.driverId = d]
        /\ btn' = [btn EXCEPT ![<<o, d>>].isRejecting = TRUE]
    /\ UNCHANGED <<ls, ot, driver_locations, hook, storeVars, mut, acc, stale, dq, aq, rt, asg, sq, card>>

handleReject == ClickReject(MaxCalls)

RejOnError(r) == [r EXCEPT !.pc = "done", !.toast = "error"]

RejOnSuccess(r) ==
    [r EXCEPT !.pc = "done", !.invalidated = {"available-orders"}, !.toast = "success"]

\* if (error) throw error, else the mutation succeeded
AfterRejectInsert(r, ok) == IF ok THEN RejOnSuccess(r) ELSE RejOnError(r)

\* mutant: the notification is inserted unread
DeclinedNotification_Unread(r) ==
    [driver_id |-> r.driverId, order_id |-> r.orderId,
     notification_type |-> "order_declined", response |-> "rejected", is_read |-> FALSE]

\* the row rejectOrder inserts (title, message and responded_at are left out)
DeclinedNotification(r) ==
    [driver_id |-> r.driverId, order_id |-> r.orderId,
     notification_type |-> "order_declined", response |-> "rejected", is_read |-> TRUE]

\* insert of the 'order_declined' notification, then onSuccess or onError
RejInsertNotification ==
    /\ rej.pc = "notification"
    /\ \E ok \in BOOLEAN :
        /\ ok => Len(driver_notifications) < MaxRows
        /\ driver_notifications' =
             IF ok
             THEN Append(driver_notifications, DeclinedNotification(rej))
             ELSE driver_notifications
        /\ LET r1 == AfterRejectInsert(Sent(rej, "driver_notifications", "insert", ok), ok)
           IN  rej' = r1 /\ stale' = stale \cup Matching(r1.invalidated)
    /\ btn' = RejectFinally(btn, rej')
    /\ UNCHANGED <<ls, ot, driver_locations, hook, orders, order_assignments, calls, mut, acc, dq, aq, rt, asg, sq, card>>

\* ------------------------------------------------------------------ assignOrderToDriver
AsgIdle ==
    [pc |-> "idle", orderId |-> 1, driverId |-> "d1", matched |-> 0,
     existingAssignment |-> FALSE, sent |-> <<>>, invalidated |-> {}, toast |-> "none"]

\* assignOrderToDriver.mutate({orderId, driverId})
assignOrderToDriver ==
    /\ asg.pc \in {"idle", "done"}
    /\ calls < MaxCalls
    /\ calls' = calls + 1
    /\ \E o \in Orders, d \in Drivers :
        asg' = [AsgIdle EXCEPT !.pc = "select", !.orderId = o, !.driverId = d]
    /\ UNCHANGED <<ls, ot, driver_locations, hook, btn, storeVars, mut, acc, stale, dq, aq, rt, rej, sq, card>>

AsgOnError(a) == [a EXCEPT !.pc = "done", !.toast = "error"]

AsgOnSuccess(a) ==
    [a EXCEPT !.pc = "done", !.invalidated = {"driver-orders", "available-orders"},
              !.toast = "success"]

\* the answer of .select('id').eq('order_id', orderId).single() when n rows match:
\* the row when the request went through and n = 1, else data null and an error
\* (the request failed, or no row or several rows matched)
Single(ok, n) == [data |-> ok /\ n = 1, error |-> ~ok \/ n # 1]

\* const { data: existingAssignment } = ...: the error of the answer is not read
ExistingAssignment(ok, n) == Single(ok, n).data

\* the existence check and the branch on existingAssignment
AsgSelect ==
    /\ asg.pc = "select"
    /\ \E ok \in BOOLEAN :
        LET n  == Cardinality(AssignmentsOf(asg.orderId))
            ex == ExistingAssignment(ok, n)
            a1 == Sent(asg, "order_assignments", "select", ~Single(ok, n).error)
        IN  asg' = [a1 EXCEPT !.matched = n, !.existingAssignment = ex,
                              !.pc = IF ex THEN "update" ELSE "insert"]
    /\ UNCHANGED <<ls, ot, driver_locations, hook, btn, storeVars, calls, mut, acc, stale, dq, aq, rt, rej, sq, card>>

\* the request .from('order_assignments').update({driver_id, assigned_at}).eq('order_id', orderId)
AssignUpdateRequest(a, t, ok) ==
    [table |-> "order_assignments", column |-> "order_id", value |-> a.orderId,
     payload |-> [driver_id |-> a.driverId, assigned_at |-> t], ok |-> ok]

\* if (error) throw error, else the mutation succeeded
AfterAssignWrite(a, ok) == IF ok THEN AsgOnSuccess(a) ELSE AsgOnError(a)

\* the branch "Update existing assignment"
AsgUpdate ==
    /\ asg.pc = "update"
    /\ \E ok \in BOOLEAN, t \in Times :
        LET a1 == AfterAssignWrite(Sent(asg, "order_assignments", "update", ok), ok)
        IN  /\ order_assignments' =
                 UpdateAssignments(order_assignments, AssignUpdateRequest(asg, t, ok))
            /\ asg' = a1
            /\ stale' = stale \cup Matching(a1.invalidated)
    /\ UNCHANGED <<ls, ot, driver_locations, hook, btn, orders, driver_notifications, calls, mut, acc, dq, aq, rt, rej, sq, card>>

\* the branch "Create new assignment"
AsgInsert ==
    /\ asg.pc = "insert"
    /\ \E ok \in BOOLEAN, t \in Times :
        LET a1 == AfterAssignWrite(Sent(asg, "order_assignments", "insert", ok), ok)
        IN  /\ ok => Len(order_assignments) < MaxRows
            /\ order_assignments' =
                 IF ok
                 THEN Append(order_assignments, AssignmentRow(asg.orderId, asg.driverId, t))
                 ELSE order_assignments
            /\ asg' = a1
            /\ stale' = stale \cup Matching(a1.invalidated)
    /\ UNCHANGED <<ls, ot, driver_locations, hook, btn, orders, driver_notifications, calls, mut, acc, dq, aq, rt, rej, sq, card>>

\* ------------------------------------------------------------------ query helpers
\* the permutations of the finite set S, as sequences
Perms(S) ==
    {f \in [1..Cardinality(S) -> S] : \A i, j \in 1..Cardinality(S) : i # j => f[i] # f[j]}

\* .order('created_at', { ascending }): the orderings of the rows S the store may
\* return; rows with equal created_at come in any order
OrderByCreatedAt(S, ascending) ==
    {f \in Perms(S) :
        \A i, j \in DOMAIN f :
            i < j => IF ascending
                     THEN orders[f[i]].created_at <= orders[f[j]].created_at
                     ELSE orders[f[i]].created_at >= orders[f[j]].created_at}

\* mutant: one retry more than the option asks for
QueryFailed_OneMoreRetry(q, first, retry) ==
    IF q.failureCount < retry + 1
    THEN [q EXCEPT !.pc = first, !.failureCount = @ + 1]
    ELSE [q EXCEPT !.pc = "error", !.failureCount = 0]

\* a thrown error under retry: n: fetch again, or give the error to the hook
QueryFailed(q, first, retry) ==
    IF q.failureCount < retry
    THEN [q EXCEPT !.pc = first, !.failureCount = @ + 1]
    ELSE [q EXCEPT !.pc = "error", !.failureCount = 0]

\* ------------------------------------------------------------------ useDriverOrders: assigned orders
\* retry: 2 of the assigned-orders query
AssignedOrdersRetry == 2

SqIdle ==
    [pc |-> "idle", driverId |-> "d1", data |-> <<>>, hasData |-> FALSE, failureCount |-> 0]

\* the query is fetched: on mount for the hook's driverId, or again after an
\* invalidation
SqFetch ==
    /\ sq.pc \in {"idle", "done", "error"}
    /\ \E d \in Drivers :
        /\ sq.pc # "idle" => d = sq.driverId
        /\ sq' = [sq EXCEPT !.pc = "orders", !.driverId = d, !.failureCount = 0]
    /\ UNCHANGED <<ls, ot, driver_locations, hook, btn, storeVars, calls, mut, acc, stale, dq, aq, rt, asg, rej, card>>

\* mutant: the status filter also lets 'delivered' through
SqSelectOrders_Delivered(d) ==
    {o \in Orders :
        /\ orders[o].status \in {"confirmed", "preparing", "ready", "delivered"}
        /\ \E i \in AssignmentsOf(o) : order_assignments[i].driver_id = d}

\* the rows selected by order_assignments!inner, .eq('order_assignments.driver_id',
\* driverId) and .in('status', ['confirmed', 'preparing', 'ready'])
SqSelectOrders(d) ==
    {o \in Orders :
        /\ orders[o].status \in {"confirmed", "preparing", "ready"}
        /\ \E i \in AssignmentsOf(o) : order_assignments[i].driver_id = d}

\* the request of queryFn: the driver's orders in progress, newest first
SqReadOrders ==
    /\ sq.pc = "orders"
    /\ \E ok \in BOOLEAN :
        IF ok
        THEN \E data \in OrderByCreatedAt(SqSelectOrders(sq.driverId), FALSE) :
                /\ sq' = [sq EXCEPT !.pc = "done", !.data = data, !.hasData = TRUE,
                                    !.failureCount = 0]
                /\ stale' = stale \ {"driver-orders,driverId"}
        ELSE /\ sq' = QueryFailed(sq, "orders", AssignedOrdersRetry)
             /\ stale' = stale
    /\ UNCHANGED <<ls, ot, driver_locations, hook, btn, storeVars, calls, mut, acc, dq, aq, rt, asg, rej, card>>

\* ------------------------------------------------------------------ useDriverOrders: available orders
DqIdle ==
    [pc |-> "idle", excludeOrderIds |-> <<>>, data |-> <<>>, hasData |-> FALSE,
     failureCount |-> 0]

\* the query is fetched: on mount, or again after an invalidation
DqFetch ==
    /\ dq.pc \in {"idle", "done", "error"}
    /\ dq' = [dq EXCEPT !.pc = "assignments", !.failureCount = 0]
    /\ UNCHANGED <<ls, ot, driver_locations, hook, btn, asg, rej, sq, card, storeVars, calls, mut, acc, stale, aq, rt>>

\* .from('order_assignments').select('order_id')
SelectAssignedOrderIds == [i \in DOMAIN order_assignments |-> order_assignments[i].order_id]

\* first request: the ids of the orders already assigned
DqReadAssignments ==
    /\ dq.pc = "assignments"
    /\ \E ok \in BOOLEAN :
        dq' = IF ok
              THEN [dq EXCEPT !.pc = "orders", !.excludeOrderIds = SelectAssignedOrderIds]
              ELSE QueryFailed(dq, "assignments", DriverOrdersRetry)
    /\ UNCHANGED <<ls, ot, driver_locations, hook, btn, asg, rej, sq, card, storeVars, calls, mut, acc, stale, aq, rt>>

\* mutant: the assigned orders are not excluded
DqSelectOrders_NoExclusion(excludeOrderIds) ==
    {o \in Orders : orders[o].status = "ready"}

\* the rows selected by .eq('status', 'ready') and, only when excludeOrderIds is not
\* empty, .not('id', 'in', excludeOrderIds)
DqSelectOrders(excludeOrderIds) ==
    {o \in Orders :
        /\ orders[o].status = "ready"
        /\ Len(excludeOrderIds) > 0 => o \notin Range(excludeOrderIds)}

\* second request: the ready orders outside excludeOrderIds, newest first
DqReadOrders ==
    /\ dq.pc = "orders"
    /\ \E ok \in BOOLEAN :
        IF ok
        THEN \E data \in OrderByCreatedAt(DqSelectOrders(dq.excludeOrderIds), FALSE) :
                /\ dq' = [dq EXCEPT !.pc = "done", !.data = data, !.hasData = TRUE,
                                    !.failureCount = 0]
                /\ stale' = stale \ {"available-orders"}
        ELSE /\ dq' = QueryFailed(dq, "assignments", DriverOrdersRetry)
             /\ stale' = stale
    /\ UNCHANGED <<ls, ot, driver_locations, hook, btn, asg, rej, sq, card, storeVars, calls, mut, acc, aq, rt>>

\* ------------------------------------------------------------------ useAvailableOrders: query
AqIdle ==
    [pc |-> "idle", rows |-> <<>>, i |-> 1, filteredOrders |-> <<>>, data |-> <<>>,
     hasData |-> FALSE, failureCount |-> 0]

\* the query is fetched: on mount, every refetchInterval, or after an invalidation
AqFetch ==
    /\ aq.pc \in {"idle", "done", "error"}
    /\ aq' = [aq EXCEPT !.pc = "orders", !.failureCount = 0]
    /\ UNCHANGED <<ls, ot, driver_locations, hook, btn, asg, rej, sq, card, storeVars, calls, mut, acc, stale, dq, rt>>

\* mutant: the query selects the status useDriverOrders selects
AqSelectOrders_Ready ==
    {o \in Orders :
        /\ orders[o].profiles
        /\ orders[o].delivery_addresses
        /\ orders[o].status = "ready"
        /\ orders[o].delivery_address_id = NULL}

\* the rows selected by profiles!inner, delivery_addresses!inner,
\* .eq('status', 'pending') and .is('delivery_address_id', null)
AqSelectOrders ==
    {o \in Orders :
        /\ orders[o].profiles
        /\ orders[o].delivery_addresses
        /\ orders[o].status = "pending"
        /\ orders[o].delivery_address_id = NULL}

\* .not('order_assignments', 'cs', '{}') names no column of orders that this code
\* reads or writes: what it removes is decided by the store, and a filter can only
\* remove rows
AqAssignmentsFilter(S) == SUBSET S

\* the end of queryFn: the loop is over and filteredOrders is returned
AqLoopNext(q) ==
    IF q.i > Len(q.rows)
    THEN [AqIdle EXCEPT !.pc = "done", !.data = q.filteredOrders, !.hasData = TRUE]
    ELSE [q EXCEPT !.pc = "lookup"]

\* first request, answered without error (ok) or with one: the candidate orders,
\* oldest first
AqOrdersAnswered(ok) ==
    /\ aq.pc = "orders"
    /\ IF ok
        THEN \E S \in AqAssignmentsFilter(AqSelectOrders) :
               \E rows \in OrderByCreatedAt(S, TRUE) :
                 LET q == AqLoopNext([aq EXCEPT !.rows = rows, !.i = 1,
                                                !.filteredOrders = <<>>])
                 IN  /\ aq' = q
                     /\ stale' = IF q.pc = "done"
                                 THEN stale \ {"available-orders,driverId"}
                                 ELSE stale
        ELSE /\ aq' = QueryFailed(aq, "orders", AvailableOrdersRetry)
             /\ stale' = stale
    /\ UNCHANGED <<ls, ot, driver_locations, hook, btn, asg, rej, sq, card, storeVars, calls, mut, acc, dq, rt>>

AqReadOrders == \E ok \in BOOLEAN : AqOrdersAnswered(ok)

\* mutant: the lookup's answer is not looked at
KeepsOrder_Always(ok, assignments) == TRUE

\* the test of the loop body on the lookup's answer: data is null when the lookup
\* returned an error
KeepsOrder(ok, assignments) == ~ok \/ assignments = {}

\* one turn of the loop: the lookup of the assignments of rows[i], answered without
\* error (ok) or with one
AqLookupAnswered(ok) ==
    /\ aq.pc = "lookup"
    /\ LET order == aq.rows[aq.i]
            kept  == IF KeepsOrder(ok, AssignmentsOf(order))
                     THEN Append(aq.filteredOrders, order)
                     ELSE aq.filteredOrders
            q     == AqLoopNext([aq EXCEPT !.filteredOrders = kept, !.i = @ + 1])
        IN  /\ aq' = q
            /\ stale' = IF q.pc = "done" THEN stale \ {"available-orders,driverId"}
                        ELSE stale
    /\ UNCHANGED <<ls, ot, driver_locations, hook, btn, asg, rej, sq, card, storeVars, calls, mut, acc, dq, rt>>

AqLookup == \E ok \in BOOLEAN : AqLookupAnswered(ok)

\* ------------------------------------------------------------------ useAvailableOrders: real-time
RtIdle == [channel |-> FALSE, received |-> <<>>, invalidated |-> <<>>]

\* order.notes of a change event: null, or a text as the sequence of its characters
Text(chars) == [null |-> FALSE, chars |-> chars]
NullNotes == [null |-> TRUE, chars |-> <<>>]
NotesTable == Text(<<"M", "e", "s", "a", ":", "4">>)
NotesInner == Text(<<"2", " ", "M", "e", "s", "a", ":", "1">>)
NotesPlain == Text(<<"M", "e", "s", "a", " ", "4">>)

EventNotes == {NullNotes, NotesTable, NotesInner, NotesPlain}

\* payload.new of the change events the store delivers
EventOrders == [status : {"pending", "confirmed"}, notes : EventNotes]

\* String.prototype.includes
Includes(chars, pat) ==
    \E k \in 0..(Len(chars) - Len(pat)) : \A j \in 1..Len(pat) : chars[k + j] = pat[j]

\* order.notes?.includes('Mesa:'), undefined (falsy) when notes is null
NotesIncludeMesa(notes) ==
    ~notes.null /\ Includes(notes.chars, <<"M", "e", "s", "a", ":">>)

\* mutant: the table orders ('Mesa:' in the notes) are not told apart
InsertInvalidates_AnyPending(order) == order.status = "pending"

\* the test of the INSERT handler
InsertInvalidates(order) ==
    order.status = "pending" /\ ~NotesIncludeMesa(order.notes)

\* the effect runs with a driverId: the channel is subscribed
RtSubscribe ==
    /\ ~rt.channel
    /\ rt' = [rt EXCEPT !.channel = TRUE]
    /\ UNCHANGED <<ls, ot, driver_locations, hook, btn, asg, rej, sq, card, storeVars, calls, mut, acc, stale, dq, aq>>

\* cleanup of the effect: supabase.removeChannel(channel)
RtCleanup ==
    /\ rt.channel
    /\ rt' = [rt EXCEPT !.channel = FALSE]
    /\ UNCHANGED <<ls, ot, driver_locations, hook, btn, asg, rej, sq, card, storeVars, calls, mut, acc, stale, dq, aq>>

\* the handler's record of a delivered event and of what it did with it
RtHandled(r, eventType, order, invalidates) ==
    [r EXCEPT !.received = Append(@, [eventType |-> eventType, new |-> order]),
              !.invalidated = Append(@, invalidates)]

\* handler of INSERT on orders
RtOnInsert ==
    /\ rt.channel
    /\ Len(rt.received) < MaxEvents
    /\ \E order \in EventOrders :
        /\ rt' = RtHandled(rt, "INSERT", order, InsertInvalidates(order))
        /\ stale' = IF InsertInvalidates(order)
                    THEN stale \cup Matching({"available-orders"})
                    ELSE stale
    /\ UNCHANGED <<ls, ot, driver_locations, hook, btn, asg, rej, sq, card, storeVars, calls, mut, acc, dq, aq>>

\* handler of UPDATE on orders
RtOnUpdate ==
    /\ rt.channel
    /\ Len(rt.received) < MaxEvents
    /\ \E order \in EventOrders :
        /\ rt' = RtHandled(rt, "UPDATE", order, TRUE)
        /\ stale' = stale \cup Matching({"available-orders"})
    /\ UNCHANGED <<ls, ot, driver_locations, hook, btn, asg, rej, sq, card, storeVars, calls, mut, acc, dq, aq>>

\* ------------------------------------------------------------------ useAvailableOrders: the hook
\* driverId?: string when it is not given (undefined, or the empty string: !driverId)
NoDriverId == ""

\* the hook before it is mounted; channels counts the channels that were subscribed
\* and not removed
HookIdle == [mounted |-> FALSE, driverId |-> NoDriverId, channels |-> 0]

\* enabled: !!driverId
QueryEnabled(driverId) == driverId # NoDriverId

\* the subscription effect: if (!driverId) return; else the channel is subscribed
SubscriptionEffect(h) ==
    IF h.driverId = NoDriverId THEN h ELSE [h EXCEPT !.channels = @ + 1]

\* mutant: the effect returns no cleanup
SubscriptionCleanup_None(h) == h

\* the cleanup the effect returned, if it returned one: supabase.removeChannel(channel)
SubscriptionCleanup(h) ==
    IF h.driverId = NoDriverId THEN h ELSE [h EXCEPT !.channels = @ - 1]

\* the component calling the hook mounts: the effect runs. The query observed is the
\* one of the key ['available-orders', driverId]
HookMount ==
    /\ ~hook.mounted
    /\ \E d \in Drivers \cup {NoDriverId} :
        hook' = SubscriptionEffect([hook EXCEPT !.mounted = TRUE, !.driverId = d])
    /\ rt' = [rt EXCEPT !.channel = hook'.channels > 0]
    /\ aq' = AqIdle
    /\ UNCHANGED <<ls, ot, driver_locations, btn, asg, rej, sq, card, storeVars, calls, mut, acc, stale, dq>>

\* the hook is called with another driverId: the cleanup of the last effect runs, then
\* the effect; the hook observes the query of the new key
HookUpdate ==
    /\ hook.mounted
    /\ \E d \in (Drivers \cup {NoDriverId}) \ {hook.driverId} :
        hook' = SubscriptionEffect([SubscriptionCleanup(hook) EXCEPT !.driverId = d])
    /\ rt' = [rt EXCEPT !.channel = hook'.channels > 0]
    /\ aq' = AqIdle
    /\ UNCHANGED <<ls, ot, driver_locations, btn, asg, rej, sq, card, storeVars, calls, mut, acc, stale, dq>>

\* the component unmounts: the cleanup of the last effect runs
HookUnmount ==
    /\ hook.mounted
    /\ hook' = [SubscriptionCleanup(hook) EXCEPT !.mounted = FALSE]
    /\ rt' = [rt EXCEPT !.channel = hook'.channels > 0]
    /\ aq' = AqIdle
    /\ UNCHANGED <<ls, ot, driver_locations, btn, asg, rej, sq, card, storeVars, calls, mut, acc, stale, dq>>

\* the observed query fetches: only a mounted hook with an enabled query does
HookFetch ==
    /\ hook.mounted
    /\ QueryEnabled(hook.driverId)
    /\ AqFetch

\* ------------------------------------------------------------------ OrderTracking: driver location
\* useState(null) of driverLocation
NullLocation == [null |-> TRUE, latitude |-> 0, longitude |-> 0]

\* the object given to setDriverLocation: the row's latitude and longitude
LocationOf(row) == [null |-> FALSE, latitude |-> row.latitude, longitude |-> row.longitude]

\* the component before it is mounted, tracking order 1: driverId of the last render,
\* the driver_id filter of the subscribed channel, the state driverLocation, the
\* getInitialDriverLocation calls under way, and the number of effect runs
OtIdle ==
    [mounted |-> FALSE, orderId |-> 1, driverId |-> NoDriverId, channel |-> NoDriverId,
     driverLocation |-> NullLocation, fetches |-> {}, runs |-> 0]

\* a driver's position is recorded: a row of driver_locations; each row is a place of
\* its own
LocationRow(d, k) == [driver_id |-> d, latitude |-> k, longitude |-> k, created_at |-> k]

\* order?.order_assignments?.[0]?.driver_id: the embedded rows come in the order the
\* store chooses
FirstDriverIds(o) ==
    IF AssignmentsOf(o) = {} THEN {NoDriverId}
    ELSE {order_assignments[i].driver_id : i \in AssignmentsOf(o)}

\* .eq('driver_id', d).order('created_at', {ascending: false}).limit(1).single():
\* the newest row of the driver, null when there is none or the request failed
LatestLocation(ok, d) ==
    LET mine == {i \in DOMAIN driver_locations : driver_locations[i].driver_id = d}
    IN  IF ok /\ mine # {}
        THEN LocationOf(driver_locations[CHOOSE i \in mine : \A j \in mine : j <= i])
        ELSE NullLocation

\* if (data) setDriverLocation(...): a state update of a mounted component
FetchApplies(t, f) == t.mounted /\ ~f.data.null

\* the effect on [driverId]: the cleanup of the last run (unsubscribe), then, with a
\* driverId, the subscription with filter driver_id=eq.driverId and
\* getInitialDriverLocation()
LocationEffect(t, d) ==
    IF d = NoDriverId
    THEN [t EXCEPT !.driverId = d, !.channel = NoDriverId]
    ELSE [t EXCEPT !.driverId = d, !.channel = d, !.runs = @ + 1,
                   !.fetches = @ \cup {[driver_id |-> d, pc |-> "sent", data |-> NullLocation]}]

\* the component mounts: the order is not loaded yet and the effect returns at once
OtMount ==
    /\ ot = OtIdle
    /\ ot' = [OtIdle EXCEPT !.mounted = TRUE]
    /\ UNCHANGED <<ls, driver_locations, hook, btn, asg, rej, sq, card, storeVars, calls, mut, acc,
                   stale, dq, aq, rt>>

\* the order query (first fetch, or refetchInterval) returns the order: a render with
\* the driverId of its first assignment; the effect runs when driverId changed
OtOrderFetched ==
    /\ ot.mounted
    /\ ot.runs < MaxEvents
    /\ \E d \in FirstDriverIds(ot.orderId) :
        /\ d # ot.driverId
        /\ ot' = LocationEffect(ot, d)
    /\ UNCHANGED <<ls, driver_locations, hook, btn, asg, rej, sq, card, storeVars, calls, mut, acc,
                   stale, dq, aq, rt>>

\* the component unmounts: subscription.unsubscribe()
OtUnmount ==
    /\ ot.mounted
    /\ ot' = [ot EXCEPT !.mounted = FALSE, !.channel = NoDriverId]
    /\ UNCHANGED <<ls, driver_locations, hook, btn, asg, rej, sq, card, storeVars, calls, mut, acc,
                   stale, dq, aq, rt>>

\* a driver's application inserts a row into driver_locations; the INSERT event
\* reaches the handler of a channel subscribed with that driver's filter:
\* setDriverLocation(payload.new)
LocationInserted ==
    /\ Len(driver_locations) < MaxRows
    /\ \E d \in Drivers :
        LET row == LocationRow(d, Len(driver_locations) + 1)
        IN  /\ driver_locations' = Append(driver_locations, row)
            /\ ot' = IF ot.channel = d
                     THEN [ot EXCEPT !.driverLocation = LocationOf(row)]
                     ELSE ot
    /\ UNCHANGED <<ls, hook, btn, asg, rej, sq, card, storeVars, calls, mut, acc, stale, dq, aq, rt>>

\* the store answers a getInitialDriverLocation request
OtFetchRead ==
    /\ \E f \in ot.fetches, ok \in BOOLEAN :
        /\ f.pc = "sent"
        /\ ot' = [ot EXCEPT !.fetches =
                    (@ \ {f}) \cup {[f EXCEPT !.pc = "answered",
                                              !.data = LatestLocation(ok, f.driver_id)]}]
    /\ UNCHANGED <<ls, driver_locations, hook, btn, asg, rej, sq, card, storeVars, calls, mut, acc,
                   stale, dq, aq, rt>>

\* the answer reaches getInitialDriverLocation: if (data) setDriverLocation(data)
OtFetchDone ==
    /\ \E f \in ot.fetches :
        /\ f.pc = "answered"
        /\ ot' = [ot EXCEPT !.fetches = @ \ {f},
                            !.driverLocation = IF FetchApplies(ot, f) THEN f.data ELSE @]
    /\ UNCHANGED <<ls, driver_locations, hook, btn, asg, rej, sq, card, storeVars, calls, mut, acc,
                   stale, dq, aq, rt>>

\* ------------------------------------------------------------------ LocationSelector
\* the places a user can point at and the texts of the notes field
Places == {1, 2}
NotesTexts == {"", "n1"}

\* response.results[0].formatted_address of the place p
FormattedAddress(p) == IF p = 1 THEN "a1" ELSE "a2"

\* LocationData | null
NullLocationData == [null |-> TRUE, latitude |-> 0, longitude |-> 0, address |-> "", notes |-> ""]
LocationData(lat, lng, address, notes) ==
    [null |-> FALSE, latitude |-> lat, longitude |-> lng, address |-> address, notes |-> notes]

\* the values of the prop initialLocation: none, or a place with or without notes
InitialLocations ==
    {NullLocationData} \cup {LocationData(1, 1, FormattedAddress(1), n) : n \in NotesTexts}

\* the component before it is mounted; listenerNotes is the notes of the first render,
\* which the map listeners registered by the mount effect keep calling reverseGeocode
\* with
LsIdle ==
    [mounted |-> FALSE, currentLocation |-> NullLocationData, address |-> "", notes |-> "",
     listenerNotes |-> "", geocodes |-> {}, requests |-> 0, selected |-> <<>>,
     toast |-> "none"]

\* useState(initialLocation || null), useState(initialLocation?.address || ''),
\* useState(initialLocation?.notes || '')
LsMount ==
    /\ ls = LsIdle
    /\ \E initialLocation \in InitialLocations :
        ls' = [LsIdle EXCEPT !.mounted = TRUE, !.currentLocation = initialLocation,
                             !.address = initialLocation.address,
                             !.notes = initialLocation.notes,
                             !.listenerNotes = initialLocation.notes]
    /\ UNCHANGED <<ot, driver_locations, hook, btn, asg, rej, sq, card, storeVars, calls, mut, acc,
                   stale, dq, aq, rt>>

\* onChange of the notes field: setNotes(e.target.value)
LsSetNotes ==
    /\ ls.mounted
    /\ \E n \in NotesTexts \ {ls.notes} : ls' = [ls EXCEPT !.notes = n]
    /\ UNCHANGED <<ot, driver_locations, hook, btn, asg, rej, sq, card, storeVars, calls, mut, acc,
                   stale, dq, aq, rt>>

\* onChange of the search field: setAddress(e.target.value)
LsSetAddress ==
    /\ ls.mounted
    /\ \E a \in {"", "a1", "a2"} \ {ls.address} : ls' = [ls EXCEPT !.address = a]
    /\ UNCHANGED <<ot, driver_locations, hook, btn, asg, rej, sq, card, storeVars, calls, mut, acc,
                   stale, dq, aq, rt>>

\* a geocoder request under way, with the notes its caller closed over
Geocode(kind, p, notes) == [kind |-> kind, latitude |-> p, longitude |-> p, notes |-> notes]

\* a click on the map or the end of a marker drag: reverseGeocode(lat, lng) of the
\* first render
LsMapClick ==
    /\ ls.mounted
    /\ ls.requests < MaxEvents
    /\ \E p \in Places :
        ls' = [ls EXCEPT !.geocodes = @ \cup {Geocode("reverse", p, ls.listenerNotes)},
                         !.requests = @ + 1]
    /\ UNCHANGED <<ot, driver_locations, hook, btn, asg, rej, sq, card, storeVars, calls, mut, acc,
                   stale, dq, aq, rt>>

\* getCurrentLocation: the position arrives and reverseGeocode(latitude, longitude)
\* of the render of the click is called
LsGetCurrentLocation ==
    /\ ls.mounted
    /\ ls.requests < MaxEvents
    /\ \E p \in Places :
        ls' = [ls EXCEPT !.geocodes = @ \cup {Geocode("reverse", p, ls.notes)},
                         !.requests = @ + 1]
    /\ UNCHANGED <<ot, driver_locations, hook, btn, asg, rej, sq, card, storeVars, calls, mut, acc,
                   stale, dq, aq, rt>>

\* searchAddress: if (!address.trim() || !window.google) return
LsSearchAddress ==
    /\ ls.mounted
    /\ ls.requests < MaxEvents
    /\ ls.address # ""
    /\ ls' = [ls EXCEPT !.geocodes = @ \cup {Geocode("search", 0, ls.notes)},
                        !.requests = @ + 1]
    /\ UNCHANGED <<ot, driver_locations, hook, btn, asg, rej, sq, card, storeVars, calls, mut, acc,
                   stale, dq, aq, rt>>

\* the geocoder answers: a result (for a search, the place it found), no result, or
\* an error
LsGeocoded ==
    /\ \E g \in ls.geocodes, answer \in {"result", "none", "error"}, found \in Places :
        LET p    == IF g.kind = "reverse" THEN g.latitude ELSE found
            rest == [ls EXCEPT !.geocodes = @ \ {g}]
        IN  /\ g.kind = "reverse" => found = g.latitude
            /\ answer # "result" => found = 1
            /\ ls' = IF answer = "result"
                     THEN [rest EXCEPT
                             !.address = IF g.kind = "reverse" THEN FormattedAddress(p) ELSE @,
                             !.currentLocation =
                                 LocationData(p, p, FormattedAddress(p), g.notes)]
                     ELSE IF answer = "none" /\ g.kind = "reverse"
                     THEN rest
                     ELSE [rest EXCEPT !.toast = "error"]
    /\ UNCHANGED <<ot, driver_locations, hook, btn, asg, rej, sq, card, storeVars, calls, mut, acc,
                   stale, dq, aq, rt>>

\* disabled={!currentLocation} of the confirm button
ConfirmDisabled(l) == l.currentLocation.null

\* mutant: the location is passed as it was geocoded
FinalLocation_AsGeocoded(l) == l.currentLocation

\* const finalLocation = {...currentLocation, notes}
FinalLocation(l) == [l.currentLocation EXCEPT !.notes = l.notes]

handleConfirmLocation(l) ==
    IF l.currentLocation.null
    THEN [l EXCEPT !.toast = "error"]
    ELSE [l EXCEPT !.selected = Append(@, FinalLocation(l)), !.toast = "success"]

\* a click on the confirm button
LsConfirm ==
    /\ ls.mounted
    /\ ~ConfirmDisabled(ls)
    /\ Len(ls.selected) < MaxCalls
    /\ ls' = handleConfirmLocation(ls)
    /\ UNCHANGED <<ot, driver_locations, hook, btn, asg, rej, sq, card, storeVars, calls, mut, acc,
                   stale, dq, aq, rt>>

\* ------------------------------------------------------------------ DeliveryRequestCard: distance
\* Earth's radius in km
R == 6371

\* latitudes and longitudes in degrees at which 2 * cos and 4 * sin(x/2)^2 are integers
Latitudes == {-60, 0, 60}
Longitudes == {0, 60}

\* driverLocation?: { latitude, longitude }, absent or present
NoLocation == [present |-> FALSE, latitude |-> 0, longitude |-> 0]
Locations == [present : {TRUE}, latitude : Latitudes, longitude : Longitudes]

\* useState<number | null>(null): null, or a distance in tenths of a km
NullDistance == [null |-> TRUE, tenths |-> 0]
Distance(tenths) == [null |-> FALSE, tenths |-> tenths]

\* 2 * Math.cos(deg * Math.PI / 180), deg a multiple of 60
Cos2(deg) ==
    CASE deg % 360 = 0 -> 2
      [] deg % 360 \in {60, 300} -> 1
      [] deg % 360 \in {120, 240} -> -1
      [] deg % 360 = 180 -> -2

\* 4 * Math.sin(x/2) * Math.sin(x/2) for x = deg * Math.PI / 180, as 2 * (1 - cos x)
SinHalfSquared4(deg) == 2 - Cos2(deg)

\* mutant: the arguments of Math.atan2 the other way round
Atan2Angle_ArgumentsSwapped(a16) ==
    <<0, 505361, 722734, 895665, 1047198, 1186400, 1318116, 1445468, 1570796,
      1696124, 1823477, 1955193, 2094395, 2245928, 2418858, 2636232, 3141593>>[17 - a16]

\* 2 * Math.atan2(Math.sqrt(a), Math.sqrt(1-a)) in microradians, for a = a16 / 16
Atan2Angle(a16) ==
    <<0, 505361, 722734, 895665, 1047198, 1186400, 1318116, 1445468, 1570796,
      1696124, 1823477, 1955193, 2094395, 2245928, 2418858, 2636232, 3141593>>[a16 + 1]

\* Math.round(r * c * 10) for c in microradians: r * c / 100000 rounded half up, the
\* product taken in two parts to stay within 32-bit integers
RoundTenths(r, c) ==
    (10 * r * (c \div 1000) + (r * (c % 1000) + 50000) \div 100) \div 1000

\* mutant: the cosine of the driver's latitude is used for both endpoints
HaversineA_DriverLatitudeTwice(driverLocation, address) ==
    4 * SinHalfSquared4(address.latitude - driverLocation.latitude)
    + Cos2(driverLocation.latitude) * Cos2(driverLocation.latitude)
      * SinHalfSquared4(address.longitude - driverLocation.longitude)

\* 16 * a, for a of calculateDistance with its dLat and dLon
HaversineA(driverLocation, address) ==
    4 * SinHalfSquared4(address.latitude - driverLocation.latitude)
    + Cos2(driverLocation.latitude) * Cos2(address.latitude)
      * SinHalfSquared4(address.longitude - driverLocation.longitude)

\* mutant: the distance is rounded to whole kilometres
calculateDistance_WholeKm(driverLocation, address) ==
    ((RoundTenths(R, Atan2Angle(HaversineA(driverLocation, address))) + 5) \div 10) * 10

\* calculateDistance: the argument of setDistance, Math.round(dist * 10) / 10 for
\* dist = R * c, in tenths of a km
calculateDistance(driverLocation, address) ==
    LET a == HaversineA(driverLocation, address)
        c == Atan2Angle(a)
    IN  RoundTenths(R, c)

\* the card before it is mounted
CardIdle ==
    [mounted |-> FALSE, driverLocation |-> NoLocation,
     delivery_addresses |-> [present |-> TRUE, latitude |-> 0, longitude |-> 0],
     distance |-> NullDistance,
     prev |-> [driverLocation |-> NoLocation,
               delivery_addresses |-> [present |-> TRUE, latitude |-> 0, longitude |-> 0],
               distance |-> NullDistance]]

\* the effect on [driverLocation, request.delivery_addresses]: the distance is set only
\* when both are there
DistanceEffect(distance, driverLocation, address) ==
    IF driverLocation.present /\ address.present
    THEN Distance(calculateDistance(driverLocation, address))
    ELSE distance

\* what the card was before the render that is under way
Snapshot(cd) ==
    [driverLocation |-> cd.driverLocation, delivery_addresses |-> cd.delivery_addresses,
     distance |-> cd.distance]

\* the card is rendered with props: first render (state null) or a later one, and the
\* effect runs
Render(cd, driverLocation, address) ==
    [mounted |-> TRUE, driverLocation |-> driverLocation, delivery_addresses |-> address,
     distance |-> DistanceEffect(cd.distance, driverLocation, address),
     prev |-> Snapshot(cd)]

CardMount ==
    /\ ~card.mounted
    /\ \E dl \in Locations \cup {NoLocation}, ad \in Locations :
        card' = Render(card, dl, ad)
    /\ UNCHANGED <<ls, ot, driver_locations, hook, btn, storeVars, calls, mut, acc, stale, dq, aq, rt, asg, rej, sq>>

\* the parent passes a new driverLocation or a request with another address
CardUpdate ==
    /\ card.mounted
    /\ \E dl \in Locations \cup {NoLocation}, ad \in Locations :
        /\ <<dl, ad>> # <<card.driverLocation, card.delivery_addresses>>
        /\ card' = Render(card, dl, ad)
    /\ UNCHANGED <<ls, ot, driver_locations, hook, btn, storeVars, calls, mut, acc, stale, dq, aq, rt, asg, rej, sq>>

\* ------------------------------------------------------------------ specification
OrderRow(s, c, a) ==
    [status |-> s, updated_at |-> 1, created_at |-> c, delivery_address_id |-> a,
     delivery_addresses |-> TRUE, profiles |-> TRUE]


\* the store when the hooks mount: order 1 is confirmed, assigned to d1 and may
\* carry a second row; order 2 is pending and unassigned (no uniqueness is enforced by this code)
InitAssignments ==
    LET one == <<AssignmentRow(1, "d1", 1)>>
    IN  {one, Append(one, AssignmentRow(1, "d2", 1))}

Init ==
    /\ orders = [o \in {1, 2} |-> OrderRow(IF o = 1 THEN "confirmed" ELSE "pending", o, NULL)]
    /\ order_assignments \in InitAssignments
    /\ driver_notifications = <<>>
    /\ calls = 0
    /\ mut = MutIdle
    /\ acc = AccIdle
    /\ stale = {}
    /\ dq = DqIdle
    /\ aq = AqIdle
    /\ rt = RtIdle
    /\ asg = AsgIdle
    /\ rej = RejIdle
    /\ sq = SqIdle
    /\ card = CardIdle
    /\ ls = LsIdle
    /\ ot = OtIdle
    /\ driver_locations = <<>>
    /\ hook = HookIdle
    /\ btn = BtnIdle

Next ==
    \/ CallUpdateOrderStatus
    \/ pickupOrder
    \/ deliverOrder
    \/ MutUpdateOrder
    \/ MutUpdateAssignment

Spec == Init /\ [][Next]_vars

\* the status-changing operations of both components
NextLifecycle ==
    \/ CallUpdateOrderStatus
    \/ pickupOrder
    \/ deliverOrder
    \/ MutUpdateOrder
    \/ MutUpdateAssignment
    \/ handleAccept
    \/ AccInsertAssignment
    \/ AccUpdateOrder
    \/ AccInsertNotification

SpecLifecycle == Init /\ [][NextLifecycle]_vars
\* the statuses the two available-orders queries tell apart: the one each selects
\* and one that neither selects
QueryStatuses == {"pending", "ready", "delivered"}

\* created_at of the orders of the query fixture: order 1 is the oldest, and orders
\* 2 and 3 were created at the same time
CreatedAt(o) == (o + 2) \div 2

\* the rows of the set S of order ids, each assigned to d1, in id order
RECURSIVE AssignmentsFor(_)
AssignmentsFor(S) ==
    IF S = {} THEN <<>>
    ELSE LET o == CHOOSE x \in S : \A y \in S : x <= y
         IN  <<AssignmentRow(o, "d1", 1)>> \o AssignmentsFor(S \ {o})

\* the stores the queries are run on: any status, an order with or without
\* delivery_address_id and embedded delivery_addresses row (no address row without
\* an id is excluded: delivery_address_id set but no row), any set of assigned orders
InitQueries ==
    /\ \E st \in [1..NumOrders -> QueryStatuses],
          ad \in [1..NumOrders -> {<<NULL, TRUE>>, <<NULL, FALSE>>, <<1, TRUE>>}] :
          orders = [o \in 1..NumOrders |->
                      [OrderRow(st[o], CreatedAt(o), ad[o][1])
                          EXCEPT !.delivery_addresses = ad[o][2]]]
    /\ \E A \in SUBSET (1..NumOrders) : order_assignments = AssignmentsFor(A)
    /\ driver_notifications = <<>>
    /\ calls = 0
    /\ mut = MutIdle
    /\ acc = AccIdle
    /\ stale = {}
    /\ dq = DqIdle
    /\ aq = AqIdle
    /\ rt = RtIdle
    /\ asg = AsgIdle
    /\ rej = RejIdle
    /\ sq = SqIdle
    /\ card = CardIdle
    /\ ls = LsIdle
    /\ ot = OtIdle
    /\ driver_locations = <<>>
    /\ hook = HookIdle
    /\ btn = BtnIdle

NextQueries ==
    \/ DqFetch
    \/ DqReadAssignments
    \/ DqReadOrders
    \/ AqFetch
    \/ AqReadOrders
    \/ AqLookup

SpecQueries == InitQueries /\ [][NextQueries]_vars

\* the store the subscription is observed on: order 2 is pending, has no
\* delivery_address_id and no assignment
NextEvents ==
    \/ RtSubscribe
    \/ RtCleanup
    \/ RtOnInsert
    \/ RtOnUpdate
    \/ AqFetch
    \/ AqReadOrders
    \/ AqLookup

SpecEvents == Init /\ [][NextEvents]_vars

\* ------------------------------------------------------------------ properties
AllOk(m) == \A i \in DOMAIN m.sent : m.sent[i].ok

IsOrdersUpdate(req, m) ==
    /\ req.table = "orders"
    /\ req.column = "id"
    /\ req.value = m.orderId
    /\ DOMAIN req.payload = {"status", "updated_at"}
    /\ req.payload.status = m.status
    /\ req.payload.updated_at \in Times

IsAssignmentsUpdate(req, m) ==
    /\ req.table = "order_assignments"
    /\ req.column = "order_id"
    /\ req.value = m.orderId
    /\ DOMAIN req.payload \subseteq {"picked_up_at", "delivered_at"}
    /\ req.payload = m.assignmentUpdate

C1_Requests ==
    /\ mut.pc \in {"assignments", "done"} => Len(mut.sent) >= 1
    /\ (mut.pc = "done" /\ mut.hasUpdate /\ mut.sent[1].ok) => Len(mut.sent) = 2
    /\ \A i \in DOMAIN mut.sent :
        \/ i = 1 /\ IsOrdersUpdate(mut.sent[i], mut)
        \/ i = 2 /\ mut.hasUpdate /\ IsAssignmentsUpdate(mut.sent[i], mut)

\* what a step of the mutation may change in the store: the columns of the payload in
\* the rows its filter selects, and nothing else
C1_Frame ==
    /\ driver_notifications' = driver_notifications
    /\ DOMAIN orders' = DOMAIN orders
    /\ DOMAIN order_assignments' = DOMAIN order_assignments
    /\ \A o \in Orders :
        /\ o # mut.orderId => orders'[o] = orders[o]
        /\ \A c \in DOMAIN orders[o] \ {"status", "updated_at"} :
              orders'[o][c] = orders[o][c]
    /\ \A i \in DOMAIN order_assignments :
        /\ order_assignments[i].order_id # mut.orderId
              => order_assignments'[i] = order_assignments[i]
        /\ \A c \in DOMAIN order_assignments[i] \ DOMAIN mut.assignmentUpdate :
              order_assignments'[i][c] = order_assignments[i][c]

\* C1: updateOrderStatus sends to orders an update with payload exactly
\* {status, updated_at} filtered by id = orderId and, only when assignmentUpdate is
\* given, an update of order_assignments with payload exactly assignmentUpdate
\* filtered by order_id = orderId; no other table or row is written.
C1_ExactPayload == []C1_Requests /\ [][C1_Frame]_vars

C1_Witness ==
    /\ mut.pc = "done"
    /\ Len(mut.sent) = 2
    /\ AllOk(mut)
    /\ DOMAIN mut.assignmentUpdate = {"picked_up_at", "delivered_at"}
    /\ \E i \in AssignmentsOf(mut.orderId) :
          order_assignments[i].picked_up_at = mut.assignmentUpdate.picked_up_at

C2_Outcome ==
    mut.pc = "done" =>
        /\ (mut.invalidated = {"driver-orders", "available-orders"}) <=> AllOk(mut)
        /\ ~AllOk(mut) => (mut.invalidated = {} /\ mut.toast # "success")
        /\ Matching(mut.invalidated) \subseteq stale

C2_Step ==
    stale' # stale => (mut'.pc = "done" /\ mut.pc # "done" /\ AllOk(mut'))

\* C2: updateOrderStatus invalidates 'driver-orders' and 'available-orders' when, and
\* only when, every remote write of the call succeeded; when a write fails no cached
\* query is invalidated and no success notification is shown.
C2_InvalidateOnSuccessOnly ==
    /\ [](mut.pc # "done" => mut.invalidated = {} /\ mut.toast = "none")
    /\ []C2_Outcome
    /\ [][C2_Step]_vars

C2_Witness ==
    /\ mut.pc = "done"
    /\ Len(mut.sent) = 2
    /\ mut.sent[1].ok
    /\ ~mut.sent[2].ok
    /\ mut.invalidated = {}
    /\ stale = {}

\* C3 as stated: one updateOrderStatus call is a single request/response.
C3_SingleRequest == Len(mut.sent) <= 1

\* C3 amended: one call sends one orders update and, only when assignmentUpdate is
\* given and the orders update succeeded, one order_assignments update (so pickupOrder
\* and deliverOrder make two requests when the first succeeds); no request is sent
\* twice and nothing is sent after a failed request.
C3_AtMostTwoNoRetry ==
    /\ Len(mut.sent) <= 2
    /\ \A i, j \in DOMAIN mut.sent : i # j => mut.sent[i].table # mut.sent[j].table
    /\ \A i \in DOMAIN mut.sent : ~mut.sent[i].ok => i = Len(mut.sent) /\ mut.pc = "done"
    /\ (mut.pc = "done" /\ mut.via \in {"pickupOrder", "deliverOrder"} /\ mut.sent[1].ok)
          => Len(mut.sent) = 2
    /\ (mut.pc = "done" /\ ~mut.hasUpdate) => Len(mut.sent) = 1

C3_Witness ==
    /\ mut.pc = "done"
    /\ mut.via = "pickupOrder"
    /\ Len(mut.sent) = 2
    /\ ~mut.sent[2].ok

PartialFailure(m) == m.pc = "done" /\ Len(m.sent) = 2 /\ m.sent[1].ok /\ ~m.sent[2].ok

TotalFailure(m) == m.pc = "done" /\ Len(m.sent) = 1 /\ ~m.sent[1].ok

C4_Outcome ==
    /\ PartialFailure(mut) =>
          /\ orders[mut.orderId].status = mut.status
          /\ orders[mut.orderId].updated_at = mut.sent[1].payload.updated_at
    /\ (PartialFailure(mut) \/ TotalFailure(mut)) =>
          /\ mut.toast = "error"
          /\ mut.invalidated = {}

C4_Step ==
    /\ PartialFailure(mut') /\ ~PartialFailure(mut) =>
          /\ order_assignments' = order_assignments
          /\ orders' = orders
          /\ stale' = stale
    /\ TotalFailure(mut') /\ ~TotalFailure(mut) =>
          /\ UNCHANGED storeVars
          /\ stale' = stale

\* C4: when the orders update succeeds and the order_assignments update fails, the
\* order keeps its new status, the assignment timestamps are unchanged, and the
\* caller sees what it sees when the first write fails: an error notification and
\* no cache invalidation.
C4_NoPartialFailureRecovery == []C4_Outcome /\ [][C4_Step]_vars

C4_Witness ==
    /\ PartialFailure(mut)
    /\ mut.status # "confirmed"
    /\ mut.orderId = 1
    /\ mut.assignmentUpdate # <<>>
    /\ \A i \in AssignmentsOf(1) : order_assignments[i].picked_up_at = NULL

\* position of a status in the lifecycle pending -> confirmed -> preparing -> ready
\* -> delivered; cancelled is terminal
Rank(st) ==
    CASE st = "pending" -> 1
      [] st = "confirmed" -> 2
      [] st = "preparing" -> 3
      [] st = "ready" -> 4
      [] st = "delivered" -> 5
      [] st = "cancelled" -> 6

Forward(old, new) ==
    \/ new = old
    \/ old \notin {"delivered", "cancelled"} /\ (new = "cancelled" \/ Rank(new) > Rank(old))

\* C5 as stated: a status only moves forward along the lifecycle or to cancelled.
C5_ForwardOnly ==
    [][\A o \in Orders : Forward(orders[o].status, orders'[o].status)]_vars

C5_WrittenAsRequested ==
    \A o \in Orders :
        orders'[o].status # orders[o].status =>
            \/ /\ mut.pc = "orders"
               /\ o = mut.orderId
               /\ orders'[o].status = mut.status
               /\ mut.via = "pickupOrder" => mut.status = "ready"
               /\ mut.via = "deliverOrder" => mut.status = "delivered"
               /\ acc' = acc
            \/ /\ acc.pc = "order"
               /\ o = acc.orderId
               /\ orders'[o].status = "confirmed"
               /\ mut' = mut

\* C5 amended: a status is changed only by the orders update of one of these
\* operations, and becomes the status that operation writes whatever the current
\* status is: 'confirmed' for acceptOrder, 'ready' for pickupOrder, 'delivered' for
\* deliverOrder, the given status for updateOrderStatus; no transition is checked.
C5_StatusWrittenAsRequested == [][C5_WrittenAsRequested]_vars

C5_Witness ==
    /\ acc.pc = "notification"
    /\ acc.orderId = 2
    /\ orders[2].status = "confirmed"
IsInjective(f) == \A i, j \in DOMAIN f : i # j => f[i] # f[j]

NewestFirst(f) ==
    \A i, j \in DOMAIN f : i < j => orders[f[i]].created_at >= orders[f[j]].created_at

OldestFirst(f) ==
    \A i, j \in DOMAIN f : i < j => orders[f[i]].created_at <= orders[f[j]].created_at

\* C6: the available-orders query of useDriverOrders returns exactly the orders with
\* status 'ready' whose id is not an order_id read by the first request, newest
\* first.
C6_ReadyAndNotAssigned ==
    dq.pc = "done" =>
        /\ dq.excludeOrderIds = [i \in DOMAIN order_assignments |->
                                    order_assignments[i].order_id]
        /\ Range(dq.data) = {o \in Orders : /\ orders[o].status = "ready"
                                            /\ \A i \in DOMAIN dq.excludeOrderIds :
                                                  dq.excludeOrderIds[i] # o}
        /\ IsInjective(dq.data)
        /\ NewestFirst(dq.data)

C6_Witness ==
    /\ dq.pc = "done"
    /\ Len(dq.data) = 1
    /\ Len(dq.excludeOrderIds) > 0
    /\ \E o \in Orders : orders[o].status = "ready" /\ o \in Range(dq.excludeOrderIds)

\* C7: every order in the result of useAvailableOrders has status 'pending' and no
\* order_assignments row, also when its assignment lookup returned an error.
C7_ResultUnassignedPending ==
    aq.hasData =>
        \A i \in DOMAIN aq.data :
            /\ orders[aq.data[i]].status = "pending"
            /\ AssignmentsOf(aq.data[i]) = {}

\* C8: useAvailableOrders returns every order that is pending, has a delivery
\* address and has no assignment, oldest first.
C8_AllPendingDeliveryOrders ==
    aq.pc = "done" =>
        /\ Range(aq.data) = {o \in Orders : /\ orders[o].status = "pending"
                                            /\ orders[o].delivery_address_id # NULL
                                            /\ orders[o].delivery_addresses
                                            /\ AssignmentsOf(o) = {}}
        /\ OldestFirst(aq.data)

\* C9: useAvailableOrders returns only 'pending' orders and useDriverOrders only
\* 'ready' orders, so for every state of the store no order is returned as
\* available by both hooks.
C9_HooksDisjoint ==
    /\ aq.hasData => \A i \in DOMAIN aq.data : orders[aq.data[i]].status = "pending"
    /\ dq.hasData => \A i \in DOMAIN dq.data : orders[dq.data[i]].status = "ready"
    /\ (aq.hasData /\ dq.hasData) => Range(aq.data) \cap Range(dq.data) = {}

C9_Witness ==
    /\ aq.pc = "done"
    /\ dq.pc = "done"
    /\ Len(aq.data) = 1
    /\ Len(dq.data) = 1
    /\ AssignmentsOf(aq.data[1]) = {}
    /\ AssignmentsOf(dq.data[1]) = {}

\* the notes of the delivered events that contain 'Mesa:'
TableNotes == {NotesTable, NotesInner}

ShouldInvalidate(e) ==
    \/ e.eventType = "UPDATE"
    \/ /\ e.eventType = "INSERT"
       /\ e.new.status = "pending"
       /\ e.new.notes \notin TableNotes

C10_Handled ==
    /\ Len(rt.invalidated) = Len(rt.received)
    /\ \A i \in DOMAIN rt.received : rt.invalidated[i] <=> ShouldInvalidate(rt.received[i])

C10_Step ==
    rt'.received # rt.received =>
        /\ rt.channel
        /\ Len(rt'.received) = Len(rt.received) + 1
        /\ SubSeq(rt'.received, 1, Len(rt.received)) = rt.received
        /\ SubSeq(rt'.invalidated, 1, Len(rt.invalidated)) = rt.invalidated
        /\ aq' = aq
        /\ UNCHANGED storeVars
        /\ stale' = IF ShouldInvalidate(rt'.received[Len(rt'.received)])
                    THEN stale \cup {"available-orders", "available-orders,driverId"}
                    ELSE stale

\* C10: a change event is handled only by invalidating 'available-orders': every
\* UPDATE invalidates it, an INSERT invalidates it iff the new order is 'pending'
\* and its notes do not contain 'Mesa:'; the handlers leave the cached list as it
\* is and handle every delivered event, in the order of delivery.
C10_EventsOnlyInvalidate == []C10_Handled /\ [][C10_Step]_vars

C10_Witness ==
    /\ Len(rt.received) = 2
    /\ rt.received[1].eventType = "INSERT"
    /\ rt.received[1].new.status = "pending"
    /\ rt.received[1].new.notes = NotesInner
    /\ ~rt.invalidated[1]
    /\ rt.received[2].eventType = "UPDATE"
    /\ rt.invalidated[2]
    /\ aq.hasData
    /\ Len(aq.data) = 1
    /\ "available-orders,driverId" \in stale

\* ------------------------------------------------------------------ specifications of the later claims
\* the card of one request, rendered again whenever its props change
NextDistance ==
    \/ CardMount
    \/ CardUpdate

SpecDistance == Init /\ [][NextDistance]_vars


\* the mutations of the card and assignOrderToDriver on the store of Init
NextAssignment ==
    \/ assignOrderToDriver
    \/ AsgSelect
    \/ AsgUpdate
    \/ AsgInsert
    \/ handleAccept
    \/ AccInsertAssignment
    \/ AccUpdateOrder
    \/ AccInsertNotification
    \/ handleReject
    \/ RejInsertNotification

\* the stores these mutations start from: the orders of Init, and at most one
\* order_assignments row per order
SingleAssignments ==
    { <<>>, <<AssignmentRow(1, "d1", 1)>>,
      <<AssignmentRow(1, "d1", 1), AssignmentRow(2, "d2", 1)>> }

InitAssignment ==
    /\ orders = [o \in {1, 2} |-> OrderRow(IF o = 1 THEN "confirmed" ELSE "pending", o, NULL)]
    /\ order_assignments \in SingleAssignments
    /\ driver_notifications = <<>>
    /\ calls = 0
    /\ mut = MutIdle
    /\ acc = AccIdle
    /\ stale = {}
    /\ dq = DqIdle
    /\ aq = AqIdle
    /\ rt = RtIdle
    /\ asg = AsgIdle
    /\ rej = RejIdle
    /\ sq = SqIdle
    /\ card = CardIdle
    /\ ls = LsIdle
    /\ ot = OtIdle
    /\ driver_locations = <<>>
    /\ hook = HookIdle
    /\ btn = BtnIdle

SpecAssignment == InitAssignment /\ [][NextAssignment]_vars

\* no query has been fetched
QueriesIdle == sq.pc = "idle" /\ dq.pc = "idle" /\ aq.pc = "idle"

\* the attempts of the three queries and of the four mutations: a behaviour either
\* fetches the queries of the hooks, in any interleaving, on the store as it is at
\* mount, or runs mutations, in any interleaving; what a query returns after a
\* mutation is the subject of the other specifications
NextRetry ==
    \/ calls = 0 /\ SqFetch
    \/ SqReadOrders
    \/ calls = 0 /\ DqFetch
    \/ DqReadAssignments
    \/ DqReadOrders
    \/ calls = 0 /\ AqFetch
    \/ AqReadOrders
    \/ AqLookup
    \/ QueriesIdle /\ pickupOrder
    \/ QueriesIdle /\ deliverOrder
    \/ MutUpdateOrder
    \/ MutUpdateAssignment
    \/ QueriesIdle /\ assignOrderToDriver
    \/ AsgSelect
    \/ AsgUpdate
    \/ AsgInsert
    \/ QueriesIdle /\ handleAccept
    \/ AccInsertAssignment
    \/ AccUpdateOrder
    \/ AccInsertNotification
    \/ QueriesIdle /\ handleReject
    \/ RejInsertNotification

SpecRetry == InitAssignment /\ [][NextRetry]_vars

\* no query is in the middle of a fetch
QueriesSettled ==
    /\ sq.pc \in {"idle", "done", "error"}
    /\ dq.pc \in {"idle", "done", "error"}
    /\ aq.pc \in {"idle", "done", "error"}

\* an acceptOrder has ended and no query is in the middle of a fetch
FetchAfterAccept == acc.pc = "done" /\ QueriesSettled

\* acceptOrder as the only writer and the fetches that follow it: acceptOrder is
\* called while no query has been fetched, and the three queries are fetched, one
\* fetch at a time, once an acceptOrder has ended
NextAccept ==
    \/ FetchAfterAccept /\ SqFetch
    \/ SqReadOrders
    \/ FetchAfterAccept /\ DqFetch
    \/ DqReadAssignments
    \/ DqReadOrders
    \/ FetchAfterAccept /\ AqFetch
    \/ AqReadOrders
    \/ AqLookup
    \/ QueriesIdle /\ handleAccept
    \/ AccInsertAssignment
    \/ AccUpdateOrder
    \/ AccInsertNotification

\* the store acceptOrder starts from: order 1 is linked to d1, order 2 to nobody
InitAccept == InitAssignment /\ Len(order_assignments) = 1

SpecAccept == InitAccept /\ [][NextAccept]_vars

\* pickupOrder and deliverOrder next to the assigned-orders query of the driver
NextDelivery ==
    \/ pickupOrder
    \/ deliverOrder
    \/ MutUpdateOrder
    \/ MutUpdateAssignment
    \/ SqFetch
    \/ SqReadOrders

SpecDelivery == Init /\ [][NextDelivery]_vars

\* ------------------------------------------------------------------ properties of the later claims
\* a request of the finished mutation m was answered with an error
SomeError(m) == \E i \in DOMAIN m.sent : ~m.sent[i].ok

\* the existence check of assignOrderToDriver answered with an error although the
\* order has rows (the answer "no row" of .single() is how the code learns that
\* there is none)
CheckFailed(a) ==
    /\ a.matched > 0
    /\ \E i \in DOMAIN a.sent : a.sent[i].op = "select" /\ ~a.sent[i].ok

\* C11: every error returned by a remote call of assignOrderToDriver, acceptOrder or
\* rejectOrder is surfaced: the mutation ends in onError, which logs it and shows
\* the error notification.
C11_ErrorsSurfaced ==
    /\ (asg.pc = "done" /\ CheckFailed(asg)) => asg.toast = "error"
    /\ (asg.pc = "done" /\ \E i \in DOMAIN asg.sent :
                              asg.sent[i].op # "select" /\ ~asg.sent[i].ok)
          => asg.toast = "error"
    /\ (acc.pc = "done" /\ SomeError(acc)) => acc.toast = "error"
    /\ (rej.pc = "done" /\ SomeError(rej)) => rej.toast = "error"


\* the failed attempts of the fetch of q so far are at most two
FewFailures(q) == q.failureCount \in 0..2

\* a step of the query from q to r: a failed attempt is counted and followed by
\* another attempt from the first request on, unless it is the third, which gives
\* the error to the hook
RetryStep(q, r, first) ==
    /\ (r.pc = "error" /\ q.pc # "error") => (q.failureCount = 2 /\ q.pc # "idle")
    /\ r.failureCount # q.failureCount =>
          \/ r.failureCount = 0
          \/ r.failureCount = q.failureCount + 1 /\ q.failureCount < 2 /\ r.pc = first

\* no request of the call was sent twice
SentOnce(m) ==
    \A i, j \in DOMAIN m.sent :
        i # j => <<m.sent[i].table, m.sent[i].op>> # <<m.sent[j].table, m.sent[j].op>>

C12_Attempts ==
    /\ FewFailures(sq) /\ FewFailures(dq) /\ FewFailures(aq)
    /\ Len(mut.sent) <= 2
    /\ \A i, j \in DOMAIN mut.sent : i # j => mut.sent[i].table # mut.sent[j].table
    /\ Len(asg.sent) <= 2 /\ SentOnce(asg)
    /\ Len(acc.sent) <= 3 /\ SentOnce(acc)
    /\ Len(rej.sent) <= 1
    /\ \A m \in {mut, asg, acc, rej} : m.pc = "done" => Len(m.sent) >= 1

C12_Step ==
    /\ RetryStep(sq, sq', "orders")
    /\ RetryStep(dq, dq', "assignments")
    /\ RetryStep(aq, aq', "orders")

\* C12: a failing fetch of the assigned-orders query or of either available-orders
\* query is attempted again at most twice, and the third failure is the error of the
\* hook; a call of updateOrderStatus, assignOrderToDriver, acceptOrder or rejectOrder
\* sends each of its requests once.
C12_RetryTwiceMutateOnce == []C12_Attempts /\ [][C12_Step]_vars

C12_Witness ==
    /\ sq.pc = "error"
    /\ dq.pc = "orders" /\ dq.failureCount = 2
    /\ aq.pc = "orders" /\ aq.failureCount = 2


SamePlace(p, q) == p.latitude = q.latitude /\ p.longitude = q.longitude

\* C13: when the driver's location and the delivery address have the same latitude
\* and longitude, the distance the card stores is 0.
C13_ZeroAtSamePlace ==
    (card.mounted /\ card.driverLocation.present
        /\ SamePlace(card.driverLocation, card.delivery_addresses))
       => card.distance = Distance(0)

C13_Witness ==
    /\ card.mounted
    /\ card.driverLocation.present
    /\ SamePlace(card.driverLocation, card.delivery_addresses)
    /\ card.driverLocation.latitude = 60
    /\ card.prev.driverLocation.present
    /\ ~card.prev.distance.null
    /\ card.prev.distance.tenths > 0
    /\ card.distance.tenths = 0

\* the render before this one had the two endpoints the other way round
Swapped(cd) ==
    /\ cd.mounted
    /\ cd.driverLocation.present
    /\ cd.prev.driverLocation.present
    /\ SamePlace(cd.driverLocation, cd.prev.delivery_addresses)
    /\ SamePlace(cd.delivery_addresses, cd.prev.driverLocation)

\* C14: the distance with the driver at A and the address at B is the distance with
\* the driver at B and the address at A.
C14_Symmetric == Swapped(card) => card.distance = card.prev.distance

C14_Witness ==
    /\ Swapped(card)
    /\ card.driverLocation.latitude = 0
    /\ card.delivery_addresses.latitude = 60
    /\ card.driverLocation.longitude # card.delivery_addresses.longitude
    /\ ~card.distance.null
    /\ card.distance.tenths > 0

Sgn(x) == IF x > 0 THEN 1 ELSE IF x < 0 THEN -1 ELSE 0

\* 16 * cos of the central angle between p and q by the spherical law of cosines,
\* sin p sin q + cos p cos q cos(dLon), for latitudes in {-60, 0, 60}
CosCentralAngle16(p, q) ==
    12 * Sgn(p.latitude) * Sgn(q.latitude)
    + 2 * Cos2(p.latitude) * Cos2(q.latitude) * Cos2(q.longitude - p.longitude)

\* the great-circle distance between p and q on a sphere of radius 6371 km, in
\* tenths of a km, rounded: the angle of cosine x is the haversine angle of (1 - x) / 2
GreatCircleTenths(p, q) ==
    RoundTenths(6371, Atan2Angle((16 - CosCentralAngle16(p, q)) \div 2))

\* C15: the stored distance is the great-circle distance between the driver's
\* location and the delivery address for an Earth radius of 6371 km, rounded to a
\* tenth of a km, and depends on nothing but the two coordinate pairs.
C15_GreatCircleOneDecimal ==
    (card.mounted /\ card.driverLocation.present)
       => card.distance = Distance(GreatCircleTenths(card.driverLocation,
                                                     card.delivery_addresses))

C15_Witness ==
    /\ card.mounted
    /\ card.driverLocation.present
    /\ card.driverLocation.latitude = -60
    /\ card.delivery_addresses.latitude = 60
    /\ card.driverLocation.longitude # card.delivery_addresses.longitude
    /\ card.distance = Distance(143088)
    /\ card.prev.driverLocation.present
    /\ card.prev.distance # card.distance


\* the three writes of acceptOrder, in the order of the code
AcceptWrites ==
    << [table |-> "order_assignments", op |-> "insert"],
       [table |-> "orders", op |-> "update"],
       [table |-> "driver_notifications", op |-> "insert"] >>

\* the rows of order_assignments that link order o to driver d
Links(o, d) == {i \in AssignmentsOf(o) : order_assignments[i].driver_id = d}

\* acceptOrder ended after its insert succeeded and its status update failed
PartialAccept(a) ==
    a.pc = "done" /\ Len(a.sent) = 2 /\ a.sent[1].ok /\ ~a.sent[2].ok

C16_Sent ==
    /\ Len(acc.sent) <= 3
    /\ \A i \in DOMAIN acc.sent :
        /\ acc.sent[i].table = AcceptWrites[i].table
        /\ acc.sent[i].op = AcceptWrites[i].op
        /\ ~acc.sent[i].ok => i = Len(acc.sent)
    /\ SomeError(acc) =>
          acc.pc = "done" /\ acc.toast = "error" /\ acc.invalidated = {}
    /\ (acc.pc = "done" /\ ~SomeError(acc)) => Len(acc.sent) = 3
    /\ (PartialAccept(acc) /\ asg.pc = "idle") => Links(acc.orderId, acc.driverId) # {}

\* a step that adds an answer to acc.sent writes the table of that request when the
\* answer is not an error, and leaves every other table, and on an error all tables
\* and the cached queries, as they are
C16_Step ==
    (acc'.sent # acc.sent /\ acc'.sent # <<>>) =>
        LET n == Len(acc'.sent)
            r == acc'.sent[n]
        IN  /\ n = Len(acc.sent) + 1
            /\ r.table # "order_assignments" => order_assignments' = order_assignments
            /\ r.table # "orders" => orders' = orders
            /\ r.table # "driver_notifications" => driver_notifications' = driver_notifications
            /\ ~r.ok => (UNCHANGED storeVars /\ stale' = stale)
            /\ (r.ok /\ n = 1) =>
                  /\ Len(order_assignments') = Len(order_assignments) + 1
                  /\ order_assignments'[Len(order_assignments')].order_id = acc.orderId
                  /\ order_assignments'[Len(order_assignments')].driver_id = acc.driverId
            /\ (r.ok /\ n = 2) => orders'[acc.orderId].status = "confirmed"
            /\ (r.ok /\ n = 3) =>
                  /\ Len(driver_notifications') = Len(driver_notifications) + 1
                  /\ driver_notifications'[Len(driver_notifications')].notification_type
                        = "order_accepted"

\* C16: acceptOrder inserts the assignment, then sets the order to 'confirmed', then
\* inserts the 'order_accepted' notification; an error ends the call at that
\* request with the earlier writes kept, the error notification shown and no
\* cached query invalidated.
C16_WritesInOrderNoRollback == []C16_Sent /\ [][C16_Step]_vars

C16_Witness ==
    /\ PartialAccept(acc)
    /\ acc.orderId = 2
    /\ orders[2].status = "pending"
    /\ Links(2, acc.driverId) # {}
    /\ stale = {}


\* C17: whatever acceptOrder and assignOrderToDriver calls have run on an order, the
\* order has at most one order_assignments row.
C17_AtMostOneAssignment ==
    \A o \in Orders : Cardinality(AssignmentsOf(o)) <= 1


\* acceptOrder ended in onSuccess
Accepted(a) == a.pc = "done" /\ a.toast = "success"

C18_AfterAccept ==
    Accepted(acc) =>
        /\ orders[acc.orderId].status = "confirmed"
        /\ Links(acc.orderId, acc.driverId) # {}
        /\ acc.invalidated = {"available-orders", "driver-orders"}
        /\ (sq.pc = "done" /\ sq.driverId = acc.driverId
                /\ "driver-orders,driverId" \notin stale)
              => acc.orderId \in Range(sq.data)
        /\ (dq.pc = "done" /\ "available-orders" \notin stale)
              => acc.orderId \notin Range(dq.data)
        /\ (aq.pc = "done" /\ "available-orders,driverId" \notin stale)
              => acc.orderId \notin Range(aq.data)

C18_Step ==
    (Accepted(acc') /\ ~Accepted(acc)) =>
        {"driver-orders,driverId", "available-orders", "available-orders,driverId"}
            \subseteq stale'

\* C18: once acceptOrder by driver D on order O has succeeded, with acceptOrder the
\* only writer, O is 'confirmed' and linked to D, the cached 'driver-orders' and
\* 'available-orders' queries are invalid, and the fetch that follows returns O in
\* D's assigned orders and in neither hook's available orders.
C18_AcceptedOrderMoves == []C18_AfterAccept /\ [][C18_Step]_vars

C18_Witness ==
    /\ Accepted(acc)
    /\ acc.orderId = 2
    /\ stale = {}
    /\ sq.pc = "done" /\ sq.driverId = acc.driverId /\ 2 \in Range(sq.data)
    /\ dq.pc = "done" /\ 2 \notin Range(dq.data)
    /\ aq.pc = "done" /\ 2 \notin Range(aq.data)


\* the operations of the requests the call has sent
SentOps(m) == [i \in DOMAIN m.sent |-> m.sent[i].op]

C19_AfterAssign ==
    (asg.pc = "done" /\ asg.toast = "success" /\ asg.matched \in {0, 1}
        /\ acc.pc = "idle") =>
        /\ asg.matched = 1 => SentOps(asg) = <<"select", "update">>
        /\ asg.matched = 0 => SentOps(asg) = <<"select", "insert">>
        /\ Cardinality(AssignmentsOf(asg.orderId)) = 1
        /\ \A i \in AssignmentsOf(asg.orderId) :
              order_assignments[i].driver_id = asg.driverId

\* C19: assignOrderToDriver on an order with one assignment updates that row and
\* inserts nothing, on an order with none inserts one row; after a successful call
\* the order has exactly one assignment, to the given driver, and no status has
\* changed.
C19_UpsertByOrder == []C19_AfterAssign /\ [][asg' # asg => orders' = orders]_vars


C20_Variables ==
    /\ mut.via = "pickupOrder" =>
          /\ mut.status = "ready"
          /\ mut.hasUpdate
          /\ DOMAIN mut.assignmentUpdate = {"picked_up_at"}
          /\ mut.assignmentUpdate.picked_up_at \in Times
    /\ mut.via = "deliverOrder" =>
          /\ mut.status = "delivered"
          /\ mut.hasUpdate
          /\ DOMAIN mut.assignmentUpdate = {"delivered_at"}
          /\ mut.assignmentUpdate.delivered_at \in Times

\* deliverOrder ended in onSuccess
Delivered(m) == m.via = "deliverOrder" /\ m.pc = "done" /\ m.toast = "success"

C20_AfterDeliver ==
    Delivered(mut) =>
        /\ orders[mut.orderId].status = "delivered"
        /\ \A i \in AssignmentsOf(mut.orderId) :
              /\ order_assignments[i].delivered_at # NULL
              /\ order_assignments[i].delivered_at = mut.assignmentUpdate.delivered_at
        /\ (sq.pc = "done" /\ "driver-orders,driverId" \notin stale)
              => mut.orderId \notin Range(sq.data)

\* C20: pickupOrder calls updateOrderStatus with 'ready' and {picked_up_at},
\* deliverOrder with 'delivered' and {delivered_at}; after a successful deliverOrder
\* the order is 'delivered', each of its assignment rows has delivered_at set, and
\* the assigned orders fetched next do not contain it.
C20_PickupAndDeliver == C20_Variables /\ C20_AfterDeliver

C20_Witness ==
    /\ Delivered(mut)
    /\ mut.orderId = 1
    /\ Cardinality(AssignmentsOf(1)) = 2
    /\ sq.pc = "done"
    /\ sq.driverId = "d1"
    /\ sq.data = <<>>
    /\ stale = {"available-orders", "available-orders,driverId"}

\* ------------------------------------------------------------------ C21
\* the store a card is rejected on: order 1 is ready, order 2 is pending, and
\* order 1 may be linked to d2
InitReject ==
    /\ orders = [o \in {1, 2} |-> OrderRow(IF o = 1 THEN "ready" ELSE "pending", o, NULL)]
    /\ order_assignments \in {<<>>, <<AssignmentRow(1, "d2", 1)>>}
    /\ driver_notifications = <<>>
    /\ calls = 0
    /\ mut = MutIdle
    /\ acc = AccIdle
    /\ stale = {}
    /\ dq = DqIdle
    /\ aq = AqIdle
    /\ rt = RtIdle
    /\ asg = AsgIdle
    /\ rej = RejIdle
    /\ sq = SqIdle
    /\ card = CardIdle
    /\ ls = LsIdle
    /\ ot = OtIdle
    /\ driver_locations = <<>>
    /\ hook = HookIdle
    /\ btn = BtnIdle

\* no rejectOrder is in flight
RejectSettled == rej.pc \in {"idle", "done"}

\* rejectOrder as the only writer, between the fetches of the two available-orders
\* queries: a card is rejected while no query is in the middle of a fetch, and a
\* fetch starts while no rejectOrder is in flight
NextReject ==
    \/ RejectSettled /\ DqFetch
    \/ DqReadAssignments
    \/ DqReadOrders
    \/ RejectSettled /\ AqFetch
    \/ AqReadOrders
    \/ AqLookup
    \/ QueriesSettled /\ handleReject
    \/ RejInsertNotification

SpecReject == InitReject /\ [][NextReject]_vars

\* rejectOrder ended in onSuccess
Rejected(r) == r.pc = "done" /\ r.toast = "success"

\* what a rejectOrder call has sent and written
C21_Requests ==
    /\ Len(rej.sent) <= 1
    /\ \A i \in DOMAIN rej.sent :
          rej.sent[i].table = "driver_notifications" /\ rej.sent[i].op = "insert"
    /\ Rejected(rej) =>
          /\ Len(rej.sent) = 1
          /\ rej.invalidated = {"available-orders"}
          /\ \E i \in DOMAIN driver_notifications :
                LET n == driver_notifications[i]
                IN  /\ n.driver_id = rej.driverId
                    /\ n.order_id = rej.orderId
                    /\ n.notification_type = "order_declined"
                    /\ n.response = "rejected"
                    /\ n.is_read = TRUE

\* the refetch of a query ends with a result
DqRefetched == dq.pc = "orders" /\ dq'.pc = "done" /\ dq.hasData
AqRefetched == aq.pc \in {"orders", "lookup"} /\ aq'.pc = "done" /\ aq.hasData

C21_Step ==
    /\ UNCHANGED <<orders, order_assignments>>
    /\ Len(driver_notifications') <= Len(driver_notifications) + 1
    /\ Len(driver_notifications') = Len(driver_notifications) + 1
          <=> (Rejected(rej') /\ rej.pc = "notification")
    /\ \A i \in DOMAIN driver_notifications :
          driver_notifications'[i] = driver_notifications[i]
    /\ (Rejected(rej') /\ rej.pc = "notification")
          => {"available-orders", "available-orders,driverId"} \subseteq stale'
    /\ (Rejected(rej) /\ "available-orders" \in stale /\ DqRefetched
            /\ rej.orderId \in Range(dq.data))
          => rej.orderId \in Range(dq'.data)
    /\ (Rejected(rej) /\ "available-orders,driverId" \in stale /\ AqRefetched
            /\ rej.orderId \in Range(aq.data)
            /\ AssignmentsOf(rej.orderId) = {}
            /\ aq.pc = "lookup" /\ rej.orderId \in Range(aq.rows))
          => rej.orderId \in Range(aq'.data)

MaxClicks == MaxCalls + 1

\* the two buttons of the cards, clicked in any order
NextButtons ==
    \/ ClickAccept(MaxClicks)
    \/ AccInsertAssignment
    \/ AccUpdateOrder
    \/ AccInsertNotification
    \/ ClickReject(MaxClicks)
    \/ RejInsertNotification

SpecButtons == InitAssignment /\ [][NextButtons]_vars

\* the mutation is between mutate and onSuccess or onError
InFlight(m) == m.pc \notin {"idle", "done"}

C22_Flags ==
    /\ \A c \in DOMAIN btn :
          /\ btn[c].isAccepting <=> (InFlight(acc) /\ CardOf(acc) = c)
          /\ btn[c].isRejecting <=> (InFlight(rej) /\ CardOf(rej) = c)
    /\ ~(InFlight(acc) /\ InFlight(rej) /\ CardOf(acc) = CardOf(rej))

C22_Step ==
    /\ (InFlight(acc') /\ ~InFlight(acc))
          => ~btn[CardOf(acc')].isAccepting /\ ~btn[CardOf(acc')].isRejecting
    /\ (InFlight(rej') /\ ~InFlight(rej))
          => ~btn[CardOf(rej')].isAccepting /\ ~btn[CardOf(rej')].isRejecting

\* C22: on every card, isAccepting (isRejecting) is true exactly while the accept
\* (reject) mutation started from the card is in flight, after success and after
\* failure alike; a mutation is started from a card only while both flags are false,
\* so a card never has an accept and a reject in flight together.
C22_OneMutationPerCard == []C22_Flags /\ [][C22_Step]_vars

C22_Witness ==
    /\ calls = MaxClicks
    /\ rej.pc = "done" /\ rej.toast = "error"
    /\ acc.pc = "notification"
    /\ CardOf(acc) = CardOf(rej)
    /\ btn[CardOf(acc)].isAccepting
    /\ ~btn[CardOf(acc)].isRejecting

\* ------------------------------------------------------------------ C23
\* the two available-orders queries, fetched one at a time, while a driver accepts
\* an order: the requests of a query and of acceptOrder reach the store in any order
NextRace ==
    \/ QueriesSettled /\ DqFetch
    \/ DqReadAssignments
    \/ DqReadOrders
    \/ QueriesSettled /\ AqFetch
    \/ AqReadOrders
    \/ AqLookup
    \/ handleAccept
    \/ AccInsertAssignment
    \/ AccUpdateOrder
    \/ AccInsertNotification

SpecRace == InitReject /\ [][NextRace]_vars

\* queryFn of a hook returns (the step leaves the store as it is)
DqDelivered == dq.pc = "orders" /\ dq'.pc = "done"
AqDelivered == aq.pc \in {"orders", "lookup"} /\ aq'.pc = "done"

C23_Step ==
    /\ DqDelivered => \A o \in Range(dq'.data) : AssignmentsOf(o) = {}
    /\ AqDelivered => \A o \in Range(aq'.data) : AssignmentsOf(o) = {}

\* C23: when a hook's query returns, no order of the result has an assignment, also
\* when assignments are inserted while the query is running.
C23_DeliveredUnassigned == [][C23_Step]_vars

\* ------------------------------------------------------------------ C24
\* useAvailableOrders, mounted with a driverId, while orders gain assignments through
\* acceptOrder and assignOrderToDriver, one mutation at a time
NextEventually ==
    \/ AqFetch
    \/ AqReadOrders
    \/ AqLookup
    \/ asg.pc \in {"idle", "done"} /\ handleAccept
    \/ AccInsertAssignment
    \/ AccUpdateOrder
    \/ AccInsertNotification
    \/ acc.pc \in {"idle", "done"} /\ assignOrderToDriver
    \/ AsgSelect
    \/ AsgUpdate
    \/ AsgInsert

\* refetchInterval: 30000 fetches the query again and again; and remote reads
\* eventually succeed: a request that is sent again and again is answered, and not
\* with an error every time
FairEventually ==
    /\ WF_vars(AqFetch)
    /\ SF_vars(AqOrdersAnswered(TRUE))
    /\ SF_vars(AqLookupAnswered(TRUE))

SpecEventually == InitAccept /\ [][NextEventually]_vars /\ FairEventually

\* C24: an order that the hook returns as available and that has an assignment is
\* eventually no longer in the hook's availableOrders.
C24_AssignedOrderLeaves ==
    \A o \in 1..NumOrders :
        (o \in Range(aq.data) /\ AssignmentsOf(o) # {}) ~> (o \notin Range(aq.data))

C24_Witness ==
    /\ asg.pc = "done" /\ asg.toast = "success" /\ asg.orderId = 2
    /\ orders[2].status = "pending"
    /\ AssignmentsOf(2) # {}
    /\ aq.pc = "lookup" /\ aq.rows = <<2>>
    /\ aq.hasData /\ 2 \in Range(aq.data)

\* ------------------------------------------------------------------ C25
\* the life of one useAvailableOrders: mounts, driverId changes, unmounts, and the
\* fetches of its query
NextHook ==
    \/ HookMount
    \/ HookUpdate
    \/ HookUnmount
    \/ HookFetch
    \/ AqReadOrders
    \/ AqLookup

SpecHook == InitQueries /\ [][NextHook]_vars

C25_Channel ==
    /\ hook.channels \in {0, 1}
    /\ hook.channels = 1 <=> (hook.mounted /\ hook.driverId # NoDriverId)
    /\ rt.channel <=> hook.channels = 1
    /\ (~hook.mounted \/ hook.driverId = NoDriverId)
          => aq.pc = "idle" /\ ~aq.hasData /\ aq.data = <<>>

\* C25: the hook holds a channel exactly while it is mounted with a driverId, never
\* more than one (the channel is removed on unmount and before the effect subscribes
\* again for another driverId); without a driverId its query is not fetched and has
\* no orders.
C25_OneChannelWhileDriver == []C25_Channel

C25_Witness ==
    /\ hook.mounted
    /\ hook.driverId = "d2"
    /\ hook.channels = 1
    /\ aq.pc = "done"
    /\ aq.data # <<>>

\* ------------------------------------------------------------------ C26
\* an OrderTracking of order 1 while drivers report their positions
NextTracking ==
    \/ OtMount
    \/ OtOrderFetched
    \/ OtUnmount
    \/ LocationInserted
    \/ OtFetchRead
    \/ OtFetchDone

SpecTracking == Init /\ [][NextTracking]_vars

\* the row a driverLocation was taken from: each row is a place of its own
RowAt(loc) == driver_locations'[loc.latitude]

C26_Step ==
    (ot'.driverLocation # ot.driverLocation) =>
        /\ RowAt(ot'.driverLocation).driver_id = ot'.driverId
        /\ (~ot.driverLocation.null
              /\ RowAt(ot.driverLocation).driver_id = RowAt(ot'.driverLocation).driver_id)
             => RowAt(ot'.driverLocation).created_at > RowAt(ot.driverLocation).created_at

\* C26: every location written into driverLocation is one of the driver assigned at
\* that moment, and never an older one than the location of that driver it replaces
\* (the answer of the initial fetch does not overwrite a newer location from the
\* INSERT subscription; nothing of a previous driver is written after driverId
\* changed or the subscription was cleaned up).
C26_NewestOfCurrentDriver == [][C26_Step]_vars

\* ------------------------------------------------------------------ C27
NextSelector ==
    \/ LsMount
    \/ LsSetNotes
    \/ LsSetAddress
    \/ LsMapClick
    \/ LsGetCurrentLocation
    \/ LsSearchAddress
    \/ LsGeocoded
    \/ LsConfirm

SpecSelector == Init /\ [][NextSelector]_vars

C27_Step ==
    /\ Len(ls'.selected) # Len(ls.selected) =>
          /\ ~ls.currentLocation.null
          /\ Len(ls'.selected) = Len(ls.selected) + 1
          /\ LET passed == ls'.selected[Len(ls'.selected)]
             IN  /\ ~passed.null
                 /\ passed.latitude = ls.currentLocation.latitude
                 /\ passed.longitude = ls.currentLocation.longitude
                 /\ passed.address = ls.currentLocation.address
                 /\ passed.notes = ls.notes
    /\ \A i \in DOMAIN ls.selected : ls'.selected[i] = ls.selected[i]

\* C27: onLocationSelect is called only while currentLocation is not null, with
\* currentLocation's latitude, longitude and address and the notes field as it is at
\* the confirmation, whatever notes the location was geocoded with.
C27_ConfirmedWithCurrentNotes == [][C27_Step]_vars

C27_Witness ==
    /\ Len(ls.selected) = 1
    /\ ls.selected[1].notes = "n1"
    /\ ls.currentLocation.notes = ""
    /\ ls.currentLocation.latitude = 2
    /\ ls.selected[1].latitude = 2

====
